---------------------------- MODULE Spec2Model ----------------------------
(***************************************************************************)
(* Model of the Egg Inc contract analyzer (src/index.js, src/tools.js):    *)
(* the scoring engine handleCoop with its helpers getCoopDuration and      *)
(* calculateBuffTimeValue.                                                 *)
(*                                                                         *)
(* JavaScript numbers are modelled as exact rationals extended with NaN    *)
(* and +/-Infinity; floating-point rounding and the sign of zero are not   *)
(* modelled.  A JavaScript value is a record [t, n, d]:                    *)
(*   t = "num"   the rational n/d, d > 0, in lowest terms                  *)
(*   t = "inf"   Infinity (n = 1) or -Infinity (n = -1)                    *)
(*   t = "nan"   NaN                                                       *)
(*   t = "undef" undefined (a missing property)                            *)
(*   t = "str"   a non-empty, non-numeric string                           *)
(*   t = "null"  null                                                      *)
(***************************************************************************)
EXTENDS Integers, Sequences, FiniteSets, TLC

VARIABLES
    pc,        \* position of the call: "start" | "awaitSpecs" | "done"
    snap,      \* the coop status (eggCoopCoop of handleCoop)
    maxTime,   \* contractFarmMaximumTimeAllowed(Seconds)
    mainGoal,  \* contractMainGoal
    dur,       \* getCoopDuration: the outcome (return value or thrown error)
    bh,        \* calculateBuffTimeValue: the buffHistory array (sorted in place)
    bhIn,      \* history variable: the array's content when the call began
    refTs,     \* calculateBuffTimeValue: secondsSinceAllGoalsAchieved
    bv,        \* calculateBuffTimeValue: the outcome
    snapIn,    \* history variable: the coop status when handleCoop was called
    contract,  \* handleCoop: the contract object (addGradeSpecs writes to it)
    maj,       \* handleCoop: majCoopCoop
    out,       \* handleCoop: the promise it returned
    ratios,    \* calculateContributionFactor: the arguments of two calls
    factors,   \* calculateContributionFactor: the values returned so far
    batch,     \* one batch: the handleCoop calls that share the contract
    contractIn, \* history variable: the contract when the batch began
    coops,              \* main: the majCoopsObjects returned by getMajCoops
    seasonalContracts,  \* main: the contractIdentifiers of the season
    clearCoopsFile,     \* configuration value at the top of index.js
    coopsFile,          \* the content of files/coops.json
    mainExistingCoops,  \* main: its existingCoops array
    existingCoops,      \* processCoopsWithRateLimiting: its existingCoops
    processedCoops,     \* results not yet written by a periodic save
    processedCount,
    totalCoopCount,
    saveCounter,
    objectIndex,        \* position of the loop over coops (majCoopsObjects)
    batchStart,         \* i: offset of the current batch in majCoopsObject.coops
    batchPromises,      \* the batch: one async callback per coop
    clock,              \* ms since the batch (or the batch delay) began
    attempted,          \* history variable: the coops whose processing began
    pushed,             \* history variable: every valid result, in push order
    allContracts,       \* the response of the /contracts request
    seasonal,           \* the season filter: the outcome
    majResponse,        \* the JSON body the MAJ endpoint answers with
    uniqueCoops,        \* filterUniqueContracts: the outcome
    majCoops,           \* getMajCoops: the promise it returned
    coopResponse,       \* the response of the statuses/latest request
    historyResponses,   \* the responses of the contributor requests, in order
    coopObject,         \* addBuffHistory: the coop object it writes to
    userIndex,          \* addBuffHistory: position of its loop
    requested,          \* history variable: the contributors fetched so far
    coopPromise,        \* getEggCoopCoop: the promise it returned
    historyPromise      \* addBuffHistory: the promise it returned

\* the variables of the pipeline around the scoring engine
runVars == <<coops, seasonalContracts, clearCoopsFile, coopsFile,
             mainExistingCoops, existingCoops, processedCoops, processedCount,
             totalCoopCount, saveCounter, objectIndex, batchStart, batchPromises,
             clock,
             attempted, pushed>>

seasonVars == <<allContracts, seasonal>>

majVars == <<majResponse, uniqueCoops, majCoops>>

historyVars == <<coopResponse, historyResponses, coopObject, userIndex,
                 requested, coopPromise, historyPromise>>

\* the variables of the functions that fetch the data
fetchVars == <<seasonVars, majVars, historyVars>>

pipelineVars == <<batch, contractIn, runVars, fetchVars>>

vars == <<pc, snap, maxTime, mainGoal, dur, bh, bhIn, refTs, bv,
          snapIn, contract, maj, out, ratios, factors, pipelineVars>>

--------------------------------------------------------------------------
(* JavaScript values and arithmetic *)

RECURSIVE Gcd(_, _)
Gcd(a, b) == IF b = 0 THEN a ELSE Gcd(b, a % b)

AbsInt(x) == IF x < 0 THEN -x ELSE x

Rat(n, d) ==
    LET s == IF d < 0 THEN -1 ELSE 1
        g == Gcd(AbsInt(n), AbsInt(d))
    IN  [t |-> "num", n |-> (s * n) \div g, d |-> (s * d) \div g]

Num(n) == [t |-> "num", n |-> n, d |-> 1]
NaN == [t |-> "nan", n |-> 0, d |-> 1]
Undef == [t |-> "undef", n |-> 0, d |-> 1]
Str == [t |-> "str", n |-> 0, d |-> 1]
Null == [t |-> "null", n |-> 0, d |-> 1]
Inf(s) == [t |-> "inf", n |-> s, d |-> 1]
\* a function object
Func == [t |-> "fn", n |-> 0, d |-> 1]

\* typeof v === "number"
IsNumber(v) == v.t \in {"num", "inf", "nan"}

\* Number.isInteger(v)
IsInteger(v) == v.t = "num" /\ v.d = 1

\* the truthiness of a value: 0, NaN, undefined are falsy
Truthy(v) == \/ v.t \in {"inf", "str", "fn"}
             \/ v.t = "num" /\ v.n # 0

\* ToNumber: undefined, non-numeric strings and functions convert to NaN,
\* null to 0
ToNumber(v) ==
    IF v.t \in {"undef", "str", "fn"} THEN NaN
    ELSE IF v.t = "null" THEN Num(0)
    ELSE v

Sign(v) == IF v.n > 0 THEN 1 ELSE IF v.n < 0 THEN -1 ELSE 0

JNeg(a) ==
    LET x == ToNumber(a)
    IN  IF x.t = "nan" THEN NaN
        ELSE IF x.t = "inf" THEN Inf(-x.n)
        ELSE Rat(-x.n, x.d)

\* a + b on numbers (string concatenation is not modelled: no input of the
\* model puts a string into an addition)
JAdd(a, b) ==
    LET x == ToNumber(a)
        y == ToNumber(b)
    IN  IF x.t = "nan" \/ y.t = "nan" THEN NaN
        ELSE IF x.t = "inf" /\ y.t = "inf"
             THEN IF x.n = y.n THEN x ELSE NaN
        ELSE IF x.t = "inf" THEN x
        ELSE IF y.t = "inf" THEN y
        ELSE LET g == Gcd(x.d, y.d)
             IN  Rat(x.n * (y.d \div g) + y.n * (x.d \div g),
                     (x.d \div g) * y.d)

JSub(a, b) == JAdd(a, JNeg(b))

JMul(a, b) ==
    LET x == ToNumber(a)
        y == ToNumber(b)
    IN  IF x.t = "nan" \/ y.t = "nan" THEN NaN
        ELSE IF x.t = "inf" \/ y.t = "inf"
             THEN IF Sign(x) * Sign(y) = 0 THEN NaN
                  ELSE Inf(Sign(x) * Sign(y))
        ELSE LET g1 == Gcd(AbsInt(x.n), y.d)
                 g2 == Gcd(AbsInt(y.n), x.d)
             IN  Rat((x.n \div g1) * (y.n \div g2), (x.d \div g2) * (y.d \div g1))

JDiv(a, b) ==
    LET x == ToNumber(a)
        y == ToNumber(b)
    IN  IF x.t = "nan" \/ y.t = "nan" THEN NaN
        ELSE IF x.t = "inf"
             THEN IF y.t = "inf" THEN NaN
                  ELSE Inf(IF Sign(y) < 0 THEN -x.n ELSE x.n)
        ELSE IF y.t = "inf" THEN Num(0)
        ELSE IF y.n = 0
             THEN IF x.n = 0 THEN NaN ELSE Inf(Sign(x))
        ELSE JMul(x, Rat(y.d, y.n))

\* a < b; every comparison with NaN is false
JLt(a, b) ==
    LET x == ToNumber(a)
        y == ToNumber(b)
    IN  IF x.t = "nan" \/ y.t = "nan" THEN FALSE
        ELSE IF x.t = "inf" THEN x.n < 0 /\ ~(y.t = "inf" /\ y.n < 0)
        ELSE IF y.t = "inf" THEN y.n > 0
        ELSE LET g == Gcd(x.d, y.d)
             IN  x.n * (y.d \div g) < y.n * (x.d \div g)

\* a <= b
JLe(a, b) ==
    LET x == ToNumber(a)
        y == ToNumber(b)
    IN  IF x.t = "nan" \/ y.t = "nan" THEN FALSE
        ELSE x = y \/ JLt(x, y)

\* Math.max(a, b): NaN when either argument is NaN
JMax(a, b) ==
    LET x == ToNumber(a)
        y == ToNumber(b)
    IN  IF x.t = "nan" \/ y.t = "nan" THEN NaN
        ELSE IF JLt(x, y) THEN y ELSE x

\* Math.min(a, b)
JMin(a, b) ==
    LET x == ToNumber(a)
        y == ToNumber(b)
    IN  IF x.t = "nan" \/ y.t = "nan" THEN NaN
        ELSE IF JLt(y, x) THEN y ELSE x

\* Math.abs(a)
JAbs(a) ==
    LET x == ToNumber(a)
    IN  IF x.t = "nan" THEN NaN
        ELSE IF x.t = "inf" THEN Inf(1)
        ELSE Rat(AbsInt(x.n), x.d)

\* the outcome of a call: a returned value or a thrown error
Return(v) == [ok |-> TRUE, val |-> v, err |-> ""]
Throw(msg) == [ok |-> FALSE, val |-> Undef, err |-> msg]

--------------------------------------------------------------------------
(* getCoopDuration (src/tools.js) *)

\* a list-valued property: missing, or an array of items
NoList == [k |-> "undef", items |-> <<>>]
List(items) == [k |-> "array", items |-> items]

\* coopStatus.contributorsList ?? coopStatus.coopContributors
Contributors(coopStatus) ==
    IF coopStatus.contributorsList.k # "undef"
    THEN coopStatus.contributorsList
    ELSE coopStatus.coopContributors

\* a resolution that takes a contributor without a numeric rate as idle
ResolvedRateOrZero(contributor) ==
    IF IsNumber(contributor.contributionRate)
    THEN contributor.contributionRate
    ELSE IF IsNumber(contributor.contributionRatePerSecond)
    THEN contributor.contributionRatePerSecond
    ELSE Num(0)

\* the rate the reduce callback validates: contributionRate if it is a
\* number, otherwise contributionRatePerSecond
ResolvedRate(contributor) ==
    IF IsNumber(contributor.contributionRate)
    THEN contributor.contributionRate
    ELSE contributor.contributionRatePerSecond

\* the value the reduce callback adds to the running sum
AddedRate(contributor) == contributor.contributionRate

\* the rate the farmInfo.timestamp branch multiplies by the offline time
FarmInfoOfflineRate(contributor) == contributor.contributionRate

\* the rate the offlineSeconds branch multiplies by the offline time
OfflineSecondsRate(contributor) == contributor.contributionRatePerSecond

\* the eggs the callback subtracts from eggsRemaining for one contributor
OfflineEggs(contributor) ==
    IF contributor.farmInfo.has /\ IsNumber(contributor.farmInfo.timestamp)
    THEN JMul(FarmInfoOfflineRate(contributor),
              JAbs(contributor.farmInfo.timestamp))
    ELSE IF Truthy(contributor.offlineSeconds)
    THEN JMul(OfflineSecondsRate(contributor),
              JAbs(contributor.offlineSeconds))
    ELSE Num(0)

\* one call of the reduce callback: acc = [sum, eggs, err]
ReduceStep(acc, contributor) ==
    IF contributor.isNull
    THEN [acc EXCEPT !.err = "Cannot read properties of null"]
    ELSE IF ~IsNumber(ResolvedRate(contributor))
    THEN [acc EXCEPT !.err =
            "Invalid contributor data: contributionRate or contributionRatePerSecond must be a number."]
    ELSE [sum  |-> JAdd(acc.sum, AddedRate(contributor)),
          eggs |-> JSub(acc.eggs, OfflineEggs(contributor)),
          err  |-> ""]

\* contributors.reduce(callback, 0), which stops at the first throw
RECURSIVE ReduceFrom(_, _, _)
ReduceFrom(items, i, acc) ==
    IF i > Len(items) \/ acc.err # "" THEN acc
    ELSE ReduceFrom(items, i + 1, ReduceStep(acc, items[i]))

\* the guard before the division: throw unless the total rate is > 0
RateRejected(totalContributionRate) == JLe(totalContributionRate, Num(0))

\* the completed branch with the time since completion left out
CompletedDurationNoSince(coopStatus, maxAllowed) ==
    JMax(Num(0), JSub(maxAllowed, coopStatus.secondsRemaining))

\* the completed branch
CompletedDuration(coopStatus, maxAllowed) ==
    JMax(Num(0),
         JSub(JSub(maxAllowed, coopStatus.secondsRemaining),
              coopStatus.secondsSinceAllGoalsAchieved))

\* the outcome of getCoopDuration with the locals of the in-progress branch
DurationOutcome(o, eggs, rate) ==
    [ok |-> o.ok, val |-> o.val, err |-> o.err,
     eggsRemaining |-> eggs, totalRate |-> rate]

\* no call of getCoopDuration has been made
NotRun == [ok |-> FALSE, val |-> Undef, err |-> "not run",
           eggsRemaining |-> Undef, totalRate |-> Undef]

getCoopDuration(coopStatus, maxAllowed, goal) ==
    IF ~IsInteger(maxAllowed) \/ ~IsInteger(goal)
    THEN DurationOutcome(Throw("Invalid input: contractFarmMaximumTimeAllowed and contractMainGoal must be integers."),
                         Undef, Undef)
    ELSE IF ~coopStatus.present
    THEN DurationOutcome(Throw("Invalid input: coopStatus must be an object."),
                         Undef, Undef)
    ELSE IF ~IsNumber(coopStatus.totalAmount)
            \/ ~IsNumber(coopStatus.secondsRemaining)
    THEN DurationOutcome(Throw("Invalid coopStatus structure: totalAmount and secondsRemaining must be numbers."),
                         Undef, Undef)
    ELSE IF coopStatus.allGoalsAchieved
    THEN DurationOutcome(Return(CompletedDuration(coopStatus, maxAllowed)),
                         Undef, Undef)
    ELSE
      LET eggs0 == JMax(Num(0), JSub(goal, coopStatus.totalAmount))
          contributors == Contributors(coopStatus)
      IN  IF contributors.k = "undef"
          THEN DurationOutcome(Throw("Cannot read properties of undefined (reading 'reduce')"),
                               eggs0, Undef)
          ELSE
            LET acc == ReduceFrom(contributors.items, 1,
                                  [sum |-> Num(0), eggs |-> eggs0, err |-> ""])
            IN  IF acc.err # ""
                THEN DurationOutcome(Throw(acc.err), acc.eggs, acc.sum)
                ELSE IF RateRejected(acc.sum)
                THEN DurationOutcome(Throw("Invalid state: total contribution rate must be greater than zero."),
                                     acc.eggs, acc.sum)
                ELSE
                  LET eggsRemaining == JMax(Num(0), acc.eggs)
                      timeToShip == JDiv(eggsRemaining, acc.sum)
                      elapsedTime == JSub(maxAllowed, coopStatus.secondsRemaining)
                  IN  DurationOutcome(
                          Return(JMax(Num(0), JAdd(elapsedTime, timeToShip))),
                          eggsRemaining, acc.sum)

--------------------------------------------------------------------------
(* calculateBuffTimeValue (src/tools.js) *)

BuffEvent(time, eggLaying, earnings) ==
    [server_time |-> time, egg_laying_buff |-> eggLaying,
     earnings_buff |-> earnings]

\* the comparator (a, b) => b.server_time - a.server_time; a NaN result
\* counts as 0
Compare(a, b) ==
    LET v == JSub(b.server_time, a.server_time)
    IN  IF v.t = "nan" THEN Num(0) ELSE v

\* Array.prototype.sort is stable: e goes behind every element that does
\* not have to follow it
RECURSIVE InsertSorted(_, _)
InsertSorted(sorted, e) ==
    IF sorted = <<>> THEN <<e>>
    ELSE IF JLt(Num(0), Compare(Head(sorted), e))
         THEN <<e>> \o sorted
         ELSE <<Head(sorted)>> \o InsertSorted(Tail(sorted), e)

RECURSIVE SortFrom(_, _, _)
SortFrom(items, i, sorted) ==
    IF i > Len(items) THEN sorted
    ELSE SortFrom(items, i + 1, InsertSorted(sorted, items[i]))

\* buffHistory.sort((a, b) => b.server_time - a.server_time)
SortDescending(items) == SortFrom(items, 1, <<>>)

\* the window end without the clamp to the reference timestamp
WindowEndNoClamp(sorted, i, reference) ==
    IF i < Len(sorted) THEN sorted[i + 1].server_time ELSE reference

\* the end of the window of the event at index i of the sorted array
WindowEnd(sorted, i, reference) ==
    IF i < Len(sorted)
    THEN JMax(sorted[i + 1].server_time, reference)
    ELSE reference

\* the value one event adds to buffTimeValue for a window of `duration`
BuffGain(value, event, duration) ==
    LET deflectorPercent == JMul(JSub(event.egg_laying_buff, Num(1)), Num(100))
        siabPercent == JMul(JSub(event.earnings_buff, Num(1)), Num(100))
        v1 == IF JLt(Num(0), deflectorPercent)
              THEN JAdd(value, JMul(JMul(duration, Rat(15, 2)),
                                    JDiv(deflectorPercent, Num(100))))
              ELSE value
    IN  IF JLt(Num(0), siabPercent)
        THEN JAdd(v1, JMul(JMul(duration, Rat(3, 4)),
                           JDiv(siabPercent, Num(100))))
        ELSE v1

\* one iteration of the for loop
BuffStep(sorted, i, reference, value) ==
    LET currentBuff == sorted[i]
        start == currentBuff.server_time
        duration == JSub(start, WindowEnd(sorted, i, reference))
    IN  IF ~IsNumber(currentBuff.server_time)
           \/ ~IsNumber(currentBuff.egg_laying_buff)
           \/ ~IsNumber(currentBuff.earnings_buff)
        THEN value
        ELSE IF JLe(start, reference) THEN value
        ELSE IF JLe(duration, Num(0)) THEN value
        ELSE BuffGain(value, currentBuff, duration)

RECURSIVE BuffLoop(_, _, _, _)
BuffLoop(sorted, i, reference, value) ==
    IF i > Len(sorted) THEN value
    ELSE BuffLoop(sorted, i + 1, reference,
                  BuffStep(sorted, i, reference, value))

\* the outcome of calculateBuffTimeValue and the array as the call leaves it
BuffOutcome(o, items) ==
    [ok |-> o.ok, val |-> o.val, err |-> o.err, history |-> items]

calculateBuffTimeValue(buffHistory, reference) ==
    IF buffHistory.k # "array"
    THEN BuffOutcome(Throw("buffHistory must be an array"), buffHistory.items)
    ELSE IF ~IsNumber(reference) \/ reference.t = "nan"
    THEN BuffOutcome(Throw("secondsSinceAllGoalsAchieved must be a valid number"),
                     buffHistory.items)
    ELSE IF Len(buffHistory.items) = 0
    THEN BuffOutcome(Return(Num(0)), buffHistory.items)
    ELSE LET sorted == SortDescending(buffHistory.items)
         IN  BuffOutcome(Return(BuffLoop(sorted, 1, reference, Num(0))), sorted)

--------------------------------------------------------------------------
(* calculateContributionFactor (src/tools.js) *)

\* Math.pow(x, 0.15) for x <= 2.5: exact at 0 and 1; at 1/2, 2 and 5/2 the
\* result (0.9012504626108302, 1.109569472067845, 1.1473370055629852) cut
\* off after six, four and, at the regime boundary, nine decimals, so that
\* the model's value is never above the code's
Pow015(x) ==
    CASE x.t = "inf" -> Inf(1)
      [] x.t = "nan" -> NaN
      [] x.t = "num" /\ x.n < 0 -> NaN
      [] x = Num(0) -> Num(0)
      [] x = Rat(1, 2) -> Rat(901250, 1000000)
      [] x = Num(1) -> Num(1)
      [] x = Num(2) -> Rat(11095, 10000)
      [] x = Rat(5, 2) -> Rat(1147337005, 1000000000)

\* the curve without the cap at 12.5
calculateContributionFactorUncapped(contributionRatio) ==
    IF JLe(contributionRatio, Rat(5, 2))
    THEN JAdd(JMul(Num(3), Pow015(ToNumber(contributionRatio))), Num(1))
    ELSE JAdd(JMul(Rat(2221, 100000), contributionRatio),
              Rat(4386486, 1000000))

calculateContributionFactor(contributionRatio) ==
    IF JLe(contributionRatio, Rat(5, 2))
    THEN JAdd(JMul(Num(3), Pow015(ToNumber(contributionRatio))), Num(1))
    ELSE JAdd(JMul(Rat(2221, 100000), JMin(contributionRatio, Rat(25, 2))),
              Rat(4386486, 1000000))

--------------------------------------------------------------------------
(* handleCoop (src/index.js) *)

\* seconds of the standard contract length in basePoints
StandardLength == 259200

\* String.prototype.toUpperCase / toLowerCase on the grade codes
ToUpperCase(str) ==
    CASE str \in {"aaa", "AAA"} -> "AAA"
      [] str \in {"aa", "AA", "Aa"} -> "AA"
      [] str \in {"a", "A"} -> "A"
      [] str \in {"b", "B"} -> "B"
      [] str \in {"c", "C"} -> "C"
      [] str \in {"zz", "ZZ"} -> "ZZ"
      [] str \in {"constructor", "Constructor"} -> "CONSTRUCTOR"

ToLowerCase(str) ==
    CASE str \in {"aaa", "AAA"} -> "aaa"
      [] str \in {"aa", "AA", "Aa"} -> "aa"
      [] str \in {"a", "A"} -> "a"
      [] str \in {"b", "B"} -> "b"
      [] str \in {"c", "C"} -> "c"
      [] str \in {"zz", "ZZ"} -> "zz"
      [] str \in {"constructor", "Constructor"} -> "constructor"

\* gradeMultipliers[code]: the table entry, else the property the object
\* literal inherits from Object.prototype under that name, else undefined
GradeMultiplier(code) ==
    CASE code = "aaa" -> Num(7)
      [] code = "aa" -> Num(5)
      [] code = "a" -> Rat(7, 2)
      [] code = "b" -> Num(2)
      [] code = "c" -> Num(1)
      [] code = "constructor" -> Func
      [] OTHER -> Undef

\* an iteration that takes the spec of whatever grade
GradeSpecStepAnyGrade(found, gradeSpec, coopGrade) ==
    IF gradeSpec.eiIdentifier # ""
    THEN IF gradeSpec.goals.k # "array" \/ Len(gradeSpec.goals.items) = 0
         THEN [found EXCEPT !.done = TRUE,
                 !.err = "Invalid goal collection for grade " \o coopGrade]
         ELSE LET goal == gradeSpec.goals.items[Len(gradeSpec.goals.items)]
              IN  IF ~IsInteger(gradeSpec.lengthSeconds)
                  THEN [done |-> TRUE,
                        err |-> "Contract length must be an integer",
                        maxTime |-> found.maxTime, mainGoal |-> goal]
                  ELSE [done |-> TRUE, err |-> "",
                        maxTime |-> gradeSpec.lengthSeconds, mainGoal |-> goal]
    ELSE found

\* an iteration that takes the first goal of the matching spec
GradeSpecStepFirstGoal(found, gradeSpec, coopGrade) ==
    IF gradeSpec.eiIdentifier # "" /\ gradeSpec.eiIdentifier = coopGrade
    THEN IF gradeSpec.goals.k # "array" \/ Len(gradeSpec.goals.items) = 0
         THEN [found EXCEPT !.done = TRUE,
                 !.err = "Invalid goal collection for grade " \o coopGrade]
         ELSE LET goal == gradeSpec.goals.items[1]
              IN  IF ~IsInteger(gradeSpec.lengthSeconds)
                  THEN [done |-> TRUE,
                        err |-> "Contract length must be an integer",
                        maxTime |-> found.maxTime, mainGoal |-> goal]
                  ELSE [done |-> TRUE, err |-> "",
                        maxTime |-> gradeSpec.lengthSeconds, mainGoal |-> goal]
    ELSE found

\* one iteration of the loop over contract.gradeSpecs;
\* found = [done, err, maxTime, mainGoal]
GradeSpecStep(found, gradeSpec, coopGrade) ==
    IF gradeSpec.eiIdentifier # "" /\ gradeSpec.eiIdentifier = coopGrade
    THEN IF gradeSpec.goals.k # "array" \/ Len(gradeSpec.goals.items) = 0
         THEN [found EXCEPT !.done = TRUE,
                 !.err = "Invalid goal collection for grade " \o coopGrade]
         ELSE LET goal == gradeSpec.goals.items[Len(gradeSpec.goals.items)]
              IN  IF ~IsInteger(gradeSpec.lengthSeconds)
                  THEN [done |-> TRUE,
                        err |-> "Contract length must be an integer",
                        maxTime |-> found.maxTime, mainGoal |-> goal]
                  ELSE [done |-> TRUE, err |-> "",
                        maxTime |-> gradeSpec.lengthSeconds, mainGoal |-> goal]
    ELSE found

RECURSIVE GradeSpecLoop(_, _, _, _)
GradeSpecLoop(gradeSpecs, i, coopGrade, found) ==
    IF i > Len(gradeSpecs) \/ found.done THEN found
    ELSE GradeSpecLoop(gradeSpecs, i + 1, coopGrade,
                       GradeSpecStep(found, gradeSpecs[i], coopGrade))

\* a green scroll status without the grace period
GreenScrollNoGrace(eggCoopCoop) ==
    eggCoopCoop.allGoalsAchieved /\ eggCoopCoop.allMembersReporting

\* the green scroll status of the coop
GreenScroll(eggCoopCoop) ==
    \/ eggCoopCoop.allGoalsAchieved /\ eggCoopCoop.allMembersReporting
    \/ eggCoopCoop.gracePeriodSecondsRemaining = Num(0)

\* eggCoopCoop.secondsSinceAllGoalsAchieved || 0
BuffReference(eggCoopCoop) ==
    IF Truthy(eggCoopCoop.secondsSinceAllGoalsAchieved)
    THEN eggCoopCoop.secondsSinceAllGoalsAchieved
    ELSE Num(0)

\* user.buffHistory || []
UserHistory(user) ==
    IF user.buffHistory.k = "undef" THEN List(<<>>) ELSE user.buffHistory

\* the error record pushed by the catch around one user; ctx holds the
\* coop-level values of the call
SentinelRecord(user, message, ctx) ==
    [eiUuid |-> IF user.eiUuid = "" THEN "unknown" ELSE user.eiUuid,
     error |-> message,
     eggsShipped |-> IF Truthy(user.contributionAmount)
                     THEN user.contributionAmount ELSE Num(0),
     contributionRatio |-> Num(0),
     contributionFactor |-> Num(0),
     completionTimeBonus |-> Num(1),
     timeToCompleteFactor |-> Num(1),
     greenScroll |-> ctx.greenScroll,
     buffHistory |-> <<>>,
     buffValue |-> Num(0),
     teamWork |-> Num(1),
     upperTeamWork |-> Num(1),
     cs |-> Num(0),
     upperCS |-> Num(0)]

\* a record whose contributionRatio is relative to the whole goal
ScoredRecordCoopRatio(user, buff, ctx) ==
    LET eggsShipped == user.contributionAmount
        contributionRatio ==
            JDiv(eggsShipped, JDiv(ctx.mainGoal, ctx.maxCoopSize))
        contributionFactor == calculateContributionFactor(contributionRatio)
        fraction == JSub(Num(1), JDiv(ctx.duration, ctx.maxTime))
        completionTimeBonus ==
            JAdd(JMul(Num(4), JMul(JMul(fraction, fraction), fraction)), Num(1))
        B == JMin(JDiv(buff.val, ctx.duration), Num(2))
        teamworkScore == JDiv(JMul(Num(5), B), Num(19))
        teamWork == JAdd(JMul(Rat(19, 100), teamworkScore), Num(1))
        upperTeamWorkScore ==
            JDiv(JAdd(JAdd(JMul(Num(5), B), Num(6)), Num(10)), Num(19))
        upperTeamWork == JAdd(JMul(Rat(19, 100), upperTeamWorkScore), Num(1))
        product == JMul(JMul(ctx.basePoints, contributionFactor),
                        completionTimeBonus)
    IN  [eiUuid |-> IF user.eiUuid = "" THEN "unknown" ELSE user.eiUuid,
         error |-> "",
         eggsShipped |-> eggsShipped,
         contributionRatio |-> JDiv(eggsShipped, ctx.mainGoal),
         contributionFactor |-> contributionFactor,
         completionTimeBonus |-> completionTimeBonus,
         timeToCompleteFactor |-> JDiv(ctx.duration, ctx.maxTime),
         greenScroll |-> ctx.greenScroll,
         buffHistory |-> buff.history,
         buffValue |-> buff.val,
         teamWork |-> teamWork,
         upperTeamWork |-> upperTeamWork,
         cs |-> JMul(JMul(product, teamWork), Rat(375, 2)),
         upperCS |-> JMul(JMul(product, upperTeamWork), Rat(375, 2))]

\* the record pushed for a user whose calculations all succeed
ScoredRecord(user, buff, ctx) ==
    LET eggsShipped == user.contributionAmount
        contributionRatio ==
            JDiv(eggsShipped, JDiv(ctx.mainGoal, ctx.maxCoopSize))
        contributionFactor == calculateContributionFactor(contributionRatio)
        fraction == JSub(Num(1), JDiv(ctx.duration, ctx.maxTime))
        completionTimeBonus ==
            JAdd(JMul(Num(4), JMul(JMul(fraction, fraction), fraction)), Num(1))
        B == JMin(JDiv(buff.val, ctx.duration), Num(2))
        teamworkScore == JDiv(JMul(Num(5), B), Num(19))
        teamWork == JAdd(JMul(Rat(19, 100), teamworkScore), Num(1))
        upperTeamWorkScore ==
            JDiv(JAdd(JAdd(JMul(Num(5), B), Num(6)), Num(10)), Num(19))
        upperTeamWork == JAdd(JMul(Rat(19, 100), upperTeamWorkScore), Num(1))
        product == JMul(JMul(ctx.basePoints, contributionFactor),
                        completionTimeBonus)
    IN  [eiUuid |-> IF user.eiUuid = "" THEN "unknown" ELSE user.eiUuid,
         error |-> "",
         eggsShipped |-> eggsShipped,
         contributionRatio |-> contributionRatio,
         contributionFactor |-> contributionFactor,
         completionTimeBonus |-> completionTimeBonus,
         timeToCompleteFactor |-> JDiv(ctx.duration, ctx.maxTime),
         greenScroll |-> ctx.greenScroll,
         buffHistory |-> buff.history,
         buffValue |-> buff.val,
         teamWork |-> teamWork,
         upperTeamWork |-> upperTeamWork,
         cs |-> JMul(JMul(product, teamWork), Rat(375, 2)),
         upperCS |-> JMul(JMul(product, upperTeamWork), Rat(375, 2))]

\* the body of the try block around one user: the record, or the error
\* thrown to the catch
UserRecord(user, buff, ctx) ==
    IF ~buff.ok
    THEN SentinelRecord(user, "Failed to calculate buff value: " \o buff.err, ctx)
    ELSE IF ~IsNumber(user.contributionAmount)
    THEN SentinelRecord(user, "Invalid contribution amount for user", ctx)
    ELSE IF ~IsInteger(ctx.mainGoal) \/ ~IsInteger(ctx.maxCoopSize)
    THEN SentinelRecord(user,
            "Contract main goal and max coop size must be integers", ctx)
    ELSE ScoredRecord(user, buff, ctx)

\* the user as the iteration leaves it: calculateBuffTimeValue sorts the
\* user's own buffHistory array in place
UserAfter(user, buff) ==
    IF user.buffHistory.k = "array"
    THEN [user EXCEPT !.buffHistory = List(buff.history)]
    ELSE user

\* an iteration whose catch pushes no record
UserStepDropFailed(acc, user, ctx) ==
    IF user.isNull
    THEN [acc EXCEPT !.users = Append(@, user)]
    ELSE LET buff == calculateBuffTimeValue(UserHistory(user), ctx.reference)
             record == UserRecord(user, buff, ctx)
         IN  [userData |-> IF record.error # "" THEN acc.userData
                           ELSE Append(acc.userData, record),
              users |-> Append(acc.users, UserAfter(user, buff))]

\* one iteration of the loop over coopContributors;
\* acc = [userData, users]
UserStep(acc, user, ctx) ==
    IF user.isNull
    THEN [acc EXCEPT !.users = Append(@, user)]
    ELSE LET buff == calculateBuffTimeValue(UserHistory(user), ctx.reference)
         IN  [userData |-> Append(acc.userData, UserRecord(user, buff, ctx)),
              users |-> Append(acc.users, UserAfter(user, buff))]

RECURSIVE UserLoop(_, _, _, _)
UserLoop(users, i, ctx, acc) ==
    IF i > Len(users) THEN acc
    ELSE UserLoop(users, i + 1, ctx, UserStep(acc, users[i], ctx))

\* what a call of handleCoop leaves behind: the settled promise (resolved
\* with [error, userData], error = "" for no error property) and the
\* objects it was given
CoopOutcome(settled, error, userData, eggCoopCoop, duration, found) ==
    [settled |-> settled, error |-> error, userData |-> userData,
     eggCoopCoop |-> eggCoopCoop, duration |-> duration,
     maxTime |-> found.maxTime, mainGoal |-> found.mainGoal]

NothingFound == [done |-> FALSE, err |-> "", maxTime |-> Null, mainGoal |-> Null]

\* an outer catch that throws the error on
CriticalErrorRethrown(message, eggCoopCoop, duration, found) ==
    CoopOutcome("rejected", message, <<>>, eggCoopCoop, duration, found)

\* the outer catch: a structured error response
CriticalError(message, eggCoopCoop, duration, found) ==
    CoopOutcome("resolved", message, <<>>, eggCoopCoop, duration, found)

\* handleCoop from the grade onwards (index.js:372-618)
ScoreCoop(eggCoopCoop, contractData, majCoopCoop) ==
    IF majCoopCoop.grade = ""
    THEN CriticalError("Missing grade information in majCoopCoop",
                       eggCoopCoop, NotRun, NothingFound)
    ELSE
    LET gradeShortString == majCoopCoop.grade
        coopGrade == "GRADE_" \o ToUpperCase(gradeShortString)
        gradeMultiplier == GradeMultiplier(ToLowerCase(gradeShortString))
    IN
    IF ~Truthy(gradeMultiplier)
    THEN CriticalError("Unknown grade: " \o gradeShortString,
                       eggCoopCoop, NotRun, NothingFound)
    ELSE
    LET gradeSpecs == IF contractData.gradeSpecs.k = "array"
                      THEN contractData.gradeSpecs.items ELSE <<>>
        found == GradeSpecLoop(gradeSpecs, 1, coopGrade, NothingFound)
    IN
    IF found.err # ""
    THEN CriticalError(found.err, eggCoopCoop, NotRun, found)
    ELSE IF found.maxTime = Null \/ found.mainGoal = Null
    THEN CriticalError("Could not find grade specification for grade "
                          \o coopGrade, eggCoopCoop, NotRun, found)
    ELSE
    LET duration == getCoopDuration(eggCoopCoop, found.maxTime, found.mainGoal)
    IN
    IF ~duration.ok
    THEN CriticalError("Failed to calculate coop duration: " \o duration.err,
                       eggCoopCoop, duration, found)
    ELSE IF eggCoopCoop.coopContributors.k # "array"
    THEN CriticalError("Missing or invalid coop contributors",
                       eggCoopCoop, duration, found)
    ELSE
    LET ctx == [maxTime |-> found.maxTime,
                mainGoal |-> found.mainGoal,
                maxCoopSize |-> contractData.maxCoopSize,
                basePoints |->
                    JMul(JAdd(Num(1), JDiv(found.maxTime, Num(StandardLength))),
                         gradeMultiplier),
                duration |-> duration.val,
                greenScroll |-> GreenScroll(eggCoopCoop),
                reference |-> BuffReference(eggCoopCoop)]
        loop == UserLoop(eggCoopCoop.coopContributors.items, 1, ctx,
                         [userData |-> <<>>, users |-> <<>>])
    IN  CoopOutcome("resolved", "", loop.userData,
                    [eggCoopCoop EXCEPT !.coopContributors = List(loop.users)],
                    duration, found)

\* handleCoop up to the grade specs (index.js:356-370): the input checks
EnterCoop(eggCoopCoop, contractData, majCoopCoop) ==
    IF ~eggCoopCoop.present THEN "Missing egg coop data"
    ELSE IF ~contractData.present THEN "Missing contract data"
    ELSE IF ~majCoopCoop.present THEN "Missing major coop data"
    ELSE ""

--------------------------------------------------------------------------
(* Inputs: contributors and coop statuses *)

NoFarmInfo == [has |-> FALSE, timestamp |-> Undef]
FarmInfo(ts) == [has |-> TRUE, timestamp |-> ts]

\* a buffHistory property that is neither missing nor an array
NotArray == [k |-> "notarray", items |-> <<>>]

Contributor(rate, ratePerSecond, farmInfo, offlineSeconds, amount, history) ==
    [isNull |-> FALSE,
     eiUuid |-> "",
     contributionRate |-> rate,
     contributionRatePerSecond |-> ratePerSecond,
     farmInfo |-> farmInfo,
     offlineSeconds |-> offlineSeconds,
     contributionAmount |-> amount,
     buffHistory |-> history]

\* a null entry of the contributor array
NullContributor ==
    [isNull |-> TRUE,
     eiUuid |-> "",
     contributionRate |-> Undef,
     contributionRatePerSecond |-> Undef,
     farmInfo |-> NoFarmInfo,
     offlineSeconds |-> Undef,
     contributionAmount |-> Undef,
     buffHistory |-> NoList]

CoopStatus(achieved, total, remaining, since, reporting, grace, list, asList) ==
    [present |-> TRUE,
     allGoalsAchieved |-> achieved,
     totalAmount |-> total,
     secondsRemaining |-> remaining,
     secondsSinceAllGoalsAchieved |-> since,
     allMembersReporting |-> reporting,
     gracePeriodSecondsRemaining |-> grace,
     contributorsList |-> IF asList THEN list ELSE NoList,
     coopContributors |-> IF asList THEN NoList ELSE list]

\* the longest contributor array of a coop status
MaxContributors == 2

\* <<contributionRate, contributionRatePerSecond>> as the two APIs send them
RatePairs ==
    {<<Undef, Undef>>, <<Num(2), Undef>>, <<Undef, Num(1)>>,
     <<Num(2), Num(1)>>, <<Num(0), Undef>>, <<Undef, Num(0)>>}

\* <<farmInfo, offlineSeconds>>
OfflinePairs ==
    {<<NoFarmInfo, Undef>>, <<FarmInfo(Num(-2)), Undef>>,
     <<NoFarmInfo, Num(3)>>, <<FarmInfo(Num(-2)), Num(3)>>,
     <<FarmInfo(Undef), Num(3)>>}

DurationContributors ==
    {Contributor(r[1], r[2], o[1], o[2], Num(5), List(<<>>)) :
        r \in RatePairs, o \in OfflinePairs} \cup {NullContributor}

ListsOf(S, n) == UNION {[1..k -> S] : k \in 0..n}

NoBuffRun == [ok |-> FALSE, val |-> Undef, err |-> "not run", history |-> <<>>]

\* the variables of getCoopDuration while another function is analysed
IdleDuration ==
    /\ snap = CoopStatus(TRUE, Num(0), Num(0), Num(0), TRUE, Num(0),
                         List(<<>>), FALSE)
    /\ maxTime = Num(10)
    /\ mainGoal = Num(10)
    /\ dur = NotRun

MissingContract ==
    [present |-> FALSE, gradeSpecs |-> NoList, maxCoopSize |-> Undef,
     gradeSpecCollection |-> FALSE]

Contract(gradeSpecs, maxCoopSize, hasCollection) ==
    [present |-> TRUE, gradeSpecs |-> gradeSpecs, maxCoopSize |-> maxCoopSize,
     gradeSpecCollection |-> hasCollection]

GradeSpec(identifier, goals, lengthSeconds) ==
    [eiIdentifier |-> identifier, goals |-> goals,
     lengthSeconds |-> lengthSeconds]

MissingMaj == [present |-> FALSE, grade |-> ""]
MajCoop(grade) == [present |-> TRUE, grade |-> grade]

Pending == [settled |-> "pending", error |-> "", userData |-> <<>>]

\* the variables of calculateContributionFactor while another function is
\* analysed
IdleFactor ==
    /\ ratios = <<>>
    /\ factors = <<>>

\* the variables of handleCoop while another function is analysed
IdleCoop ==
    /\ snapIn = snap
    /\ contract = MissingContract
    /\ maj = MissingMaj
    /\ out = Pending
    /\ IdleFactor

\* the variables of the batch while a single call is analysed
IdleBatch ==
    /\ batch = <<>>
    /\ contractIn = MissingContract

\* the variables of the pipeline while the scoring engine is analysed
\* the variables of main and processCoopsWithRateLimiting while another
\* function is analysed
IdleRun ==
    /\ coops = <<>>
    /\ seasonalContracts = <<>>
    /\ clearCoopsFile = TRUE
    /\ coopsFile = <<>>
    /\ mainExistingCoops = <<>>
    /\ existingCoops = <<>>
    /\ processedCoops = <<>>
    /\ processedCount = 0
    /\ totalCoopCount = 0
    /\ saveCounter = 0
    /\ objectIndex = 0
    /\ batchStart = 0
    /\ batchPromises = <<>>
    /\ clock = 0
    /\ attempted = <<>>
    /\ pushed = <<>>

\* a promise that has not settled, a function that has not run
Unsettled == [settled |-> "pending", ok |-> FALSE, val |-> <<>>, err |-> ""]

IdleSeason ==
    /\ allContracts = <<>>
    /\ seasonal = Unsettled

IdleMaj ==
    /\ majResponse = List(<<>>)
    /\ uniqueCoops = Unsettled
    /\ majCoops = Unsettled

IdleHistory ==
    /\ coopResponse = Unsettled
    /\ historyResponses = <<>>
    /\ coopObject = Unsettled
    /\ userIndex = 0
    /\ requested = <<>>
    /\ coopPromise = Unsettled
    /\ historyPromise = Unsettled

\* the variables of the fetching functions while another function is
\* analysed
IdleFetch ==
    /\ IdleSeason
    /\ IdleMaj
    /\ IdleHistory

IdlePipeline ==
    /\ IdleBatch
    /\ IdleRun
    /\ IdleFetch

\* the variables of calculateBuffTimeValue while another function is analysed
IdleBuff ==
    /\ bh = List(<<>>)
    /\ bhIn = bh
    /\ refTs = Num(0)
    /\ bv = NoBuffRun

--------------------------------------------------------------------------
(* Specification of getCoopDuration on its own *)

InitCompleted ==
    \E mt \in {Num(10), Num(259200)}, rem \in {Num(4), Num(1000)},
       since \in {Num(8), Num(500)}, total \in {Num(0), Num(12)},
       items \in ListsOf(DurationContributors, MaxContributors) :
        /\ snap = CoopStatus(TRUE, total, rem, since, TRUE, Num(0),
                             List(items), FALSE)
        /\ maxTime = mt
        /\ mainGoal = Num(10)

InitInProgress ==
    \E rem \in {Num(0), Num(4), Num(12)}, total \in {Num(0), Num(4), Num(12)},
       items \in ListsOf(DurationContributors, MaxContributors),
       asList \in BOOLEAN :
        /\ snap = CoopStatus(FALSE, total, rem, Num(0), FALSE, Num(5),
                             List(items), asList)
        /\ maxTime = Num(10)
        /\ mainGoal = Num(10)

InitDuration ==
    /\ pc = "start"
    /\ dur = NotRun
    /\ InitCompleted \/ InitInProgress
    /\ IdleBuff
    /\ IdleCoop
    /\ IdlePipeline

CallGetCoopDuration ==
    /\ pc = "start"
    /\ dur' = getCoopDuration(snap, maxTime, mainGoal)
    /\ pc' = "done"
    /\ UNCHANGED <<snap, maxTime, mainGoal, bh, bhIn, refTs, bv,
                   snapIn, contract, maj, out, ratios, factors,
                   pipelineVars>>

NextDuration == CallGetCoopDuration

SpecDuration == InitDuration /\ [][NextDuration]_vars

--------------------------------------------------------------------------
(* Claims about getCoopDuration, checked under SpecDuration *)

InProgressDone == pc = "done" /\ ~snap.allGoalsAchieved

\* every contributor is an object with a numeric resolved rate
AllResolvable(items) ==
    \A i \in 1..Len(items) :
        ~items[i].isNull /\ ResolvedRate(items[i]).t = "num"

RECURSIVE SumResolved(_)
SumResolved(items) ==
    IF items = <<>> THEN Num(0)
    ELSE JAdd(ResolvedRate(Head(items)), SumResolved(Tail(items)))

\* the offline seconds of a contributor: farmInfo.timestamp when numeric,
\* otherwise offlineSeconds, otherwise none
OfflineSecondsOf(c) ==
    IF c.farmInfo.has /\ c.farmInfo.timestamp.t = "num"
    THEN JAbs(c.farmInfo.timestamp)
    ELSE IF c.offlineSeconds.t = "num" THEN JAbs(c.offlineSeconds)
    ELSE Num(0)

RECURSIVE SumOfflineEggs(_)
SumOfflineEggs(items) ==
    IF items = <<>> THEN Num(0)
    ELSE JAdd(JMul(ResolvedRate(Head(items)), OfflineSecondsOf(Head(items))),
              SumOfflineEggs(Tail(items)))

MaxInt(a, b) == IF a < b THEN b ELSE a

\* C3: whenever getCoopDuration returns (completed or in-progress branch,
\* numeric snapshot fields, integer parameters), the returned duration is a
\* number >= 0.
C3_NeverNegative ==
    (pc = "done" /\ dur.ok) =>
        (dur.val.t \in {"num", "inf"} /\ dur.val.n >= 0)

\* C4: for a completed snapshot getCoopDuration returns
\* max(0, maxAllowedSeconds - secondsRemaining - secondsSinceAllGoalsAchieved),
\* whatever totalAmount and the contributor list are.
C4_CompletedDuration ==
    (pc = "done" /\ snap.allGoalsAchieved) =>
        /\ dur.ok
        /\ dur.val = Num(MaxInt(0, maxTime.n - snap.secondsRemaining.n
                                   - snap.secondsSinceAllGoalsAchieved.n))

\* C4 witness: the completed coop 259200, 1000, 500 returned 257700, with a
\* contributor list that the in-progress branch would reject.
C4_Witness ==
    /\ pc = "done"
    /\ snap.allGoalsAchieved
    /\ maxTime = Num(259200)
    /\ snap.secondsRemaining = Num(1000)
    /\ snap.secondsSinceAllGoalsAchieved = Num(500)
    /\ snap.coopContributors.items = <<NullContributor>>
    /\ dur.val = Num(257700)

\* C5: in progress, the total rate is the sum of the contributors' resolved
\* rates and the result is max(0, elapsed + eggsRemaining / totalRate), also
\* for contributors that carry only contributionRatePerSecond.
C5_TotalRateIsResolvedSum ==
    LET items == Contributors(snap).items
        total == SumResolved(items)
    IN  (InProgressDone /\ AllResolvable(items)) =>
            /\ dur.totalRate = total
            /\ JLt(Num(0), total) =>
                 /\ dur.ok
                 /\ dur.val = JMax(Num(0),
                        JAdd(JSub(maxTime, snap.secondsRemaining),
                             JDiv(dur.eggsRemaining, total)))

\* C6: in progress, eggsRemaining is max(0, mainGoal - totalAmount) minus
\* (resolved rate x offline seconds) of every contributor, clamped to >= 0.
C6_OfflineUsesResolvedRate ==
    LET items == Contributors(snap).items
    IN  (InProgressDone /\ dur.ok) =>
            dur.eggsRemaining =
                JMax(Num(0),
                     JSub(JMax(Num(0), JSub(mainGoal, snap.totalAmount)),
                          SumOfflineEggs(items)))

\* C7: in progress, if the resolved rates do not sum to a value > 0 the call
\* fails, and a returned duration was never divided by a total rate that is
\* not strictly positive.
C7_RejectsNonPositiveRate ==
    LET items == Contributors(snap).items
    IN  /\ (InProgressDone /\ AllResolvable(items)
              /\ ~JLt(Num(0), SumResolved(items))) => ~dur.ok
        /\ (InProgressDone /\ dur.ok) => JLt(Num(0), dur.totalRate)

--------------------------------------------------------------------------
(* Specification of calculateBuffTimeValue on its own *)

\* the longest buffHistory, the latest server_time and the latest reference
MaxEvents == 3
MaxTime == 2
MaxRef == 1

\* <<egg_laying_buff, earnings_buff>>: at, above and below the baseline 1
BuffPairs ==
    {<<Num(1), Num(1)>>, <<Num(2), Num(1)>>, <<Num(1), Num(3)>>,
     <<Rat(1, 2), Rat(3, 2)>>}

BuffEvents ==
    {BuffEvent(Num(time), m[1], m[2]) : time \in 0..MaxTime, m \in BuffPairs}

InitBuff ==
    /\ pc = "start"
    /\ IdleDuration
    /\ IdleCoop
    /\ bh \in {List(items) : items \in ListsOf(BuffEvents, MaxEvents)}
    /\ bhIn = bh
    /\ refTs \in {Num(r) : r \in 0..MaxRef}
    /\ bv = NoBuffRun
    /\ IdlePipeline

CallCalculateBuffTimeValue ==
    /\ pc = "start"
    /\ bv' = calculateBuffTimeValue(bh, refTs)
    /\ bh' = List(bv'.history)
    /\ pc' = "done"
    /\ UNCHANGED <<snap, maxTime, mainGoal, dur, bhIn, refTs,
                   snapIn, contract, maj, out, ratios, factors,
                   pipelineVars>>

NextBuff == CallCalculateBuffTimeValue

SpecBuff == InitBuff /\ [][NextBuff]_vars

--------------------------------------------------------------------------
(* Claims about calculateBuffTimeValue, checked under SpecBuff *)

\* the place of input event i in the descending order that keeps equal
\* server_times in input order
RankOf(items, i) ==
    1 + Cardinality({j \in 1..Len(items) :
                        \/ items[j].server_time.n > items[i].server_time.n
                        \/ /\ items[j].server_time.n = items[i].server_time.n
                           /\ j < i})

SortedReference(items) ==
    [k \in 1..Len(items) |->
        items[CHOOSE i \in 1..Len(items) : RankOf(items, i) = k]]

\* the weight of one second of an event's window
BuffWeight(event) ==
    JAdd(JMul(Rat(15, 2), JMax(Num(0), JSub(event.egg_laying_buff, Num(1)))),
         JMul(Rat(3, 4), JMax(Num(0), JSub(event.earnings_buff, Num(1)))))

\* the contribution of event i of the sorted list
ReferenceTerm(sorted, i, reference) ==
    LET t == sorted[i].server_time.n
        e == IF i = Len(sorted) THEN reference.n
             ELSE MaxInt(sorted[i + 1].server_time.n, reference.n)
    IN  IF t > reference.n /\ t - e > 0
        THEN JMul(Num(t - e), BuffWeight(sorted[i]))
        ELSE Num(0)

RECURSIVE ReferenceSum(_, _, _)
ReferenceSum(sorted, i, reference) ==
    IF i = 0 THEN Num(0)
    ELSE JAdd(ReferenceSum(sorted, i - 1, reference),
              ReferenceTerm(sorted, i, reference))

\* C9: calculateBuffTimeValue equals the reference sum over the events in
\* descending server_time order (equal times in input order): event i with
\* server_time > referenceTimestamp contributes
\* duration_i x (7.5 x max(0, egg_laying_buff - 1) + 0.75 x max(0, earnings_buff - 1)),
\* duration_i = server_time_i - max(server_time_{i+1}, referenceTimestamp),
\* counted only when positive.
C9_EqualsReferenceSum ==
    pc = "done" =>
        /\ bv.ok
        /\ bv.val = ReferenceSum(SortedReference(bhIn.items),
                                 Len(bhIn.items), refTs)

\* C9 witness: three events at distinct times, the latest two after the
\* reference and the earliest at it, with a positive value returned.
C9_Witness ==
    /\ pc = "done"
    /\ Len(bhIn.items) = 3
    /\ bhIn.items[1].server_time = Num(1)
    /\ bhIn.items[2].server_time = Num(2)
    /\ bhIn.items[3].server_time = Num(0)
    /\ bhIn.items[2].egg_laying_buff = Num(2)
    /\ bhIn.items[1].earnings_buff = Num(3)
    /\ refTs = Num(0)
    /\ bv.val = Num(9)

IsPermutation(f, n) ==
    \A k \in 1..n : \E j \in 1..n : f[j] = k

\* C10: for every permutation of the buffHistory, also one with two events
\* at the same server_time and different multipliers, the value is the same.
C10_OrderIndependent ==
    pc = "done" =>
        LET n == Len(bhIn.items)
        IN  \A f \in [1..n -> 1..n] :
                IsPermutation(f, n) =>
                    calculateBuffTimeValue(
                        List([k \in 1..n |-> bhIn.items[f[k]]]), refTs).val
                    = bv.val

--------------------------------------------------------------------------
(* Specification of calculateBuffTimeValue on arrays with malformed events *)

\* the longest buffHistory with malformed events: the comparator of the sort
\* yields NaN for them, which SortCompare takes as +0, so that the order of
\* two elements is the input order in every engine
MaxMixed == 2

\* well-formed events, and events with a missing or non-numeric field
MixedEvents ==
    {BuffEvent(Num(2), Num(2), Num(1)),
     BuffEvent(Num(1), Num(1), Num(3)),
     BuffEvent(Num(1), Num(2), Num(1)),
     BuffEvent(Num(0), Num(2), Num(3)),
     BuffEvent(Undef, Num(2), Num(1)),
     BuffEvent(Str, Num(1), Num(3)),
     BuffEvent(Num(1), Undef, Num(3)),
     BuffEvent(Num(2), Num(2), Str),
     BuffEvent(Num(1), Undef, Undef)}

InitBuffAny ==
    /\ pc = "start"
    /\ IdleDuration
    /\ IdleCoop
    /\ bh \in {List(items) : items \in ListsOf(MixedEvents, MaxMixed)}
    /\ bhIn = bh
    /\ refTs \in {Num(r) : r \in 0..MaxRef}
    /\ bv = NoBuffRun
    /\ IdlePipeline

SpecBuffAny == InitBuffAny /\ [][NextBuff]_vars

--------------------------------------------------------------------------
(* Claims about calculateBuffTimeValue, checked under SpecBuffAny *)

\* C11: calculateBuffTimeValue returns a number >= 0 for every array
\* buffHistory and every numeric referenceTimestamp, and exactly 0 for the
\* empty history.
C11_ValueNeverNegative ==
    pc = "done" =>
        /\ bv.ok
        /\ bv.val.t \in {"num", "inf"}
        /\ bv.val.n >= 0
        /\ bhIn.items = <<>> => bv.val = Num(0)

\* an event whose three fields are numbers
WellFormedEvent(event) ==
    /\ event.server_time.t = "num"
    /\ event.egg_laying_buff.t = "num"
    /\ event.earnings_buff.t = "num"

\* C12: malformed events are skipped: the call does not throw, and its
\* result is the result on the same history without the malformed events.
C12_MalformedEventsSkipped ==
    pc = "done" =>
        /\ bv.ok
        /\ bv.val = calculateBuffTimeValue(
                        List(SelectSeq(bhIn.items, WellFormedEvent)),
                        refTs).val

--------------------------------------------------------------------------
(* Specification of calculateContributionFactor on its own *)

\* contribution ratios: below, at and just above the regime boundary 2.5
\* (2.5 + 1/2221000), below, at and above the cap 12.5, and the values a
\* division can give for a goal of 0 or a negative amount
FactorRatios ==
    {Num(0), Rat(1, 2), Num(1), Num(2), Rat(5, 2), Rat(5552501, 2221000),
     Num(3), Num(10), Rat(25, 2), Num(20), Inf(1), NaN, Num(-1)}

InitFactor ==
    /\ pc = "start"
    /\ ratios \in FactorRatios \X FactorRatios
    /\ factors = <<>>
    /\ IdleDuration
    /\ IdleBuff
    /\ snapIn = snap
    /\ contract = MissingContract
    /\ maj = MissingMaj
    /\ out = Pending
    /\ IdlePipeline

\* one call of calculateContributionFactor, on the next of the two ratios
CallCalculateContributionFactor ==
    /\ pc = "start"
    /\ factors' = Append(factors,
                    calculateContributionFactor(ratios[Len(factors) + 1]))
    /\ pc' = IF Len(factors') = Len(ratios) THEN "done" ELSE "start"
    /\ UNCHANGED <<snap, maxTime, mainGoal, dur, bh, bhIn, refTs, bv,
                   snapIn, contract, maj, out, ratios, pipelineVars>>

NextFactor == CallCalculateContributionFactor

SpecFactor == InitFactor /\ [][NextFactor]_vars

--------------------------------------------------------------------------
(* Claims about calculateContributionFactor, checked under SpecFactor *)

\* C14: calculateContributionFactor is monotonically non-decreasing: for
\* ratios 0 <= r1 <= r2, factor(r1) <= factor(r2), also for r1 = 2.5 on
\* the low branch and r2 just above 2.5 on the high branch.
C14_Monotone ==
    (pc = "done" /\ JLe(Num(0), ratios[1]) /\ JLe(ratios[1], ratios[2])) =>
        JLe(factors[1], factors[2])

\* 3 x ratio^0.15 + 1 to three decimals, as <<lower, upper>>
LowCurve(ratio) ==
    CASE ratio = Num(0) -> <<Num(1), Num(1)>>
      [] ratio = Rat(1, 2) -> <<Rat(3703, 1000), Rat(3704, 1000)>>
      [] ratio = Num(1) -> <<Num(4), Num(4)>>
      [] ratio = Num(2) -> <<Rat(4328, 1000), Rat(4329, 1000)>>
      [] ratio = Rat(5, 2) -> <<Rat(4442, 1000), Rat(4443, 1000)>>

\* 0.02221 x min(ratio, 12.5) + 4.386486
HighCurve(ratio) ==
    JAdd(JMul(Rat(2221, 100000),
              IF JLt(Rat(25, 2), ratio) THEN Rat(25, 2) ELSE ratio),
         Rat(4386486, 1000000))

FollowsCurve(ratio, factor) ==
    /\ (JLe(Num(0), ratio) /\ JLe(ratio, Rat(5, 2))) =>
          /\ JLe(LowCurve(ratio)[1], factor)
          /\ JLe(factor, LowCurve(ratio)[2])
    /\ JLt(Rat(5, 2), ratio) => factor = HighCurve(ratio)
    /\ JLe(Rat(25, 2), ratio) => factor = Rat(4664111, 1000000)

\* C15: calculateContributionFactor follows the two-regime curve: for a
\* ratio <= 2.5 it is 3 x ratio^0.15 + 1 (4 at ratio 1), for a ratio > 2.5
\* it is 0.02221 x min(ratio, 12.5) + 4.386486, the same 4.664111 for every
\* ratio >= 12.5.
C15_TwoRegimeCurve ==
    \A i \in 1..Len(factors) : FollowsCurve(ratios[i], factors[i])

\* C15 witness: factor(1) = 4 and factor(20) = factor(12.5) = 4.664111.
C15_Witness ==
    /\ pc = "done"
    /\ ratios = <<Num(1), Num(20)>>
    /\ factors = <<Num(4), Rat(4664111, 1000000)>>
    /\ calculateContributionFactor(Rat(25, 2)) = factors[2]

--------------------------------------------------------------------------
(* Specification of handleCoop *)

\* the longest contributor array handed to handleCoop
MaxPlayers == 2

WithUuid(user, id) == IF user.isNull THEN user ELSE [user EXCEPT !.eiUuid = id]

\* the eiUuid of the contributor at each index
Uuids == [i \in 1..(MaxPlayers + 1) |-> CASE i = 1 -> "p1" [] i = 2 -> "p2" [] i = 3 -> "p3" [] OTHER -> "p4"]

Identified(users) == [i \in 1..Len(users) |-> WithUuid(users[i], Uuids[i])]

EarlyBuff == BuffEvent(Num(32400), Num(2), Num(1))
LateBuff == BuffEvent(Num(64800), Num(1), Num(3))

\* contributionAmount: numeric, a string, missing
PlayerAmounts == {Num(0), Num(129600), Str, Undef}

\* buffHistory: missing, not an array, empty, sorted and unsorted
PlayerHistories ==
    {NoList, NotArray, List(<<>>), List(<<LateBuff>>),
     List(<<EarlyBuff, LateBuff>>)}

Players ==
    {Contributor(Num(2), Undef, NoFarmInfo, Undef, amount, history) :
        amount \in PlayerAmounts, history \in PlayerHistories}
    \cup {NullContributor}

ValidPlayer ==
    Contributor(Num(2), Undef, NoFarmInfo, Undef, Num(129600), List(<<LateBuff>>))

\* a contributor with neither contributionRate nor contributionRatePerSecond
RatelessPlayer ==
    Contributor(Undef, Undef, NoFarmInfo, Undef, Num(129600), List(<<>>))

\* a coop status of a contract of 259200 s and 259200 eggs
CompletedCoop(list) ==
    CoopStatus(TRUE, Num(259200), Num(129600), Num(0), TRUE, Num(0), list, FALSE)

InProgressCoop(list) ==
    CoopStatus(FALSE, Num(0), Num(259200), Num(0), FALSE, Num(5), list, FALSE)

MissingCoop ==
    [CompletedCoop(NoList) EXCEPT !.present = FALSE]

\* the object getEggCoopCoop returns when its fetch fails
ErrorCoop ==
    [InProgressCoop(List(<<>>)) EXCEPT !.secondsRemaining = Undef]

Goals == List(<<Num(1000), Num(259200)>>)

ValidSpecs(identifier) ==
    List(<<GradeSpec(identifier, Goals, Num(259200))>>)

\* gradeSpecs arrays: the matching spec present, absent, after another
\* grade's, or malformed
SpecLists ==
    {List(<<>>),
     ValidSpecs("GRADE_AAA"),
     ValidSpecs("GRADE_A"),
     List(<<GradeSpec("GRADE_B", Goals, Num(259200)),
            GradeSpec("GRADE_AAA", Goals, Num(259200))>>),
     List(<<GradeSpec("GRADE_AAA", List(<<Num(518400), Num(259200)>>),
                      Num(259200))>>),
     List(<<GradeSpec("GRADE_B", List(<<Num(2000), Num(129600)>>),
                      Num(129600)),
            GradeSpec("GRADE_AAA", Goals, Num(259200))>>),
     List(<<GradeSpec("", Goals, Num(259200))>>),
     List(<<GradeSpec("GRADE_AAA", NoList, Num(259200))>>),
     List(<<GradeSpec("GRADE_AAA", List(<<>>), Num(259200))>>),
     List(<<GradeSpec("GRADE_AAA", Goals, Rat(518401, 2))>>),
     List(<<GradeSpec("GRADE_AAA", Goals, Undef)>>),
     List(<<GradeSpec("GRADE_AAA", List(<<Num(1000), Undef>>), Num(259200))>>),
     List(<<GradeSpec("GRADE_AAA", List(<<Num(1000), Null>>), Num(259200))>>)}

SetupContracts ==
    {MissingContract, Contract(NoList, Num(2), TRUE),
     Contract(NoList, Num(2), FALSE)}
    \cup {Contract(specs, Num(2), TRUE) : specs \in SpecLists}

SetupCoops ==
    {MissingCoop, ErrorCoop,
     CompletedCoop(NoList), InProgressCoop(NoList),
     CompletedCoop(List(<<>>)), InProgressCoop(List(<<>>)),
     CompletedCoop(List(<<ValidPlayer>>)), InProgressCoop(List(<<ValidPlayer>>)),
     CompletedCoop(List(<<ValidPlayer, RatelessPlayer>>)),
     InProgressCoop(List(<<ValidPlayer, RatelessPlayer>>)),
     InProgressCoop(List(<<RatelessPlayer>>))}

SetupMajCoops ==
    {MissingMaj, MajCoop(""), MajCoop("aaa"), MajCoop("AAA"), MajCoop("a"),
     MajCoop("b"), MajCoop("zz")}

\* what the grade spec fetch of addGradeSpecs can come back with
SpecResponses ==
    {[ok |-> FALSE, gradeSpecs |-> NoList],
     [ok |-> TRUE, gradeSpecs |-> NoList],
     [ok |-> TRUE, gradeSpecs |-> ValidSpecs("GRADE_AAA")],
     [ok |-> TRUE, gradeSpecs |-> ValidSpecs("GRADE_A")]}

\* grade codes in either case, in and outside the multiplier table
GradeCodes ==
    {"aaa", "AAA", "aa", "AA", "Aa", "a", "A", "b", "B", "c", "C",
     "zz", "ZZ", "constructor", "Constructor"}

\* the grade identifiers of the contracts' grade specs
GradeIds == {"GRADE_AAA", "GRADE_AA", "GRADE_A", "GRADE_B", "GRADE_C"}

\* the grade and the spec's grade vary, the rest is valid
InitGrades ==
    /\ snap = CompletedCoop(List(<<ValidPlayer>>))
    /\ contract \in {Contract(ValidSpecs(id), Num(2), TRUE) : id \in GradeIds}
    /\ maj \in {MajCoop(code) : code \in GradeCodes}

\* a contributor whose contributionAmount is a string
StringAmountPlayer ==
    Contributor(Num(2), Undef, NoFarmInfo, Undef, Str, List(<<LateBuff>>))

\* the completion, the reporting and the grace period vary; one
\* contributor is scored and one fails
InitScroll ==
    /\ \E achieved \in BOOLEAN, reporting \in BOOLEAN,
          grace \in {Num(0), Num(5), Undef} :
          snap = [IF achieved
                  THEN CompletedCoop(List(<<ValidPlayer, StringAmountPlayer>>))
                  ELSE InProgressCoop(List(<<ValidPlayer, StringAmountPlayer>>))
                  EXCEPT !.allMembersReporting = reporting,
                         !.gracePeriodSecondsRemaining = grace]
    /\ contract = Contract(ValidSpecs("GRADE_AAA"), Num(2), TRUE)
    /\ maj = MajCoop("aaa")

\* a coop in progress whose one contributor ships at a varying rate, with
\* a varying part of the allowed time left: the estimated duration goes from
\* half the allowed time to three times the allowed time
InitPace ==
    /\ \E rate \in {Num(2), Num(1), Rat(1, 2)},
          remaining \in {Num(259200), Num(129600), Num(0)} :
          snap = [InProgressCoop(List(<<
                      [ValidPlayer EXCEPT !.contributionRate = rate]>>))
                  EXCEPT !.secondsRemaining = remaining]
    /\ contract = Contract(ValidSpecs("GRADE_AAA"), Num(2), TRUE)
    /\ maj = MajCoop("aaa")

\* the coop-level inputs vary, the contributors are few
InitSetup ==
    /\ snap \in SetupCoops
    /\ contract \in SetupContracts
    /\ maj \in SetupMajCoops

\* the contributors vary, the coop-level inputs are valid
InitPlayers ==
    /\ \E users \in ListsOf(Players, MaxPlayers), achieved \in BOOLEAN :
          snap = IF achieved THEN CompletedCoop(List(Identified(users)))
                 ELSE InProgressCoop(List(Identified(users)))
    /\ contract \in {Contract(ValidSpecs("GRADE_AAA"), size, TRUE) :
                        size \in {Num(2), Rat(3, 2)}}
    /\ maj = MajCoop("aaa")

\* the shipped amounts vary from nothing to twenty times the share of one
\* player; one amount is a string
ShareAmounts ==
    {Num(0), Num(129600), Num(388800), Num(1620000), Num(2592000), Str}

InitShares ==
    /\ \E first \in ShareAmounts, second \in ShareAmounts :
          snap = CompletedCoop(List(Identified(<<
                    Contributor(Num(2), Undef, NoFarmInfo, Undef, first, List(<<>>)),
                    Contributor(Num(2), Undef, NoFarmInfo, Undef, second, NoList)>>)))
    /\ contract = Contract(ValidSpecs("GRADE_C"), Num(2), TRUE)
    /\ maj = MajCoop("c")

\* a completed coop that used all or half of the allowed time, reported
\* at once or later: the duration is positive, zero, or floored at zero
InitFloor ==
    /\ \E remaining \in {Num(259200), Num(129600)},
          since \in {Num(0), Num(64800), Num(194400)},
          history \in {List(<<>>), List(<<LateBuff>>)} :
          snap = [CompletedCoop(List(<<
                      [ValidPlayer EXCEPT !.buffHistory = history]>>))
                  EXCEPT !.secondsRemaining = remaining,
                         !.secondsSinceAllGoalsAchieved = since]
    /\ contract = Contract(ValidSpecs("GRADE_AAA"), Num(2), TRUE)
    /\ maj = MajCoop("aaa")

InitCoop ==
    /\ pc = "start"
    /\ \/ InitSetup \/ InitPlayers \/ InitGrades \/ InitScroll \/ InitPace
       \/ InitShares \/ InitFloor
    /\ snapIn = snap
    /\ maxTime = Null
    /\ mainGoal = Null
    /\ dur = NotRun
    /\ out = Pending
    /\ IdleBuff
    /\ IdleFactor
    /\ IdlePipeline

\* the rest of handleCoop, run to its return
FinishCoop(result) ==
    /\ out' = [settled |-> result.settled, error |-> result.error,
               userData |-> result.userData]
    /\ snap' = result.eggCoopCoop
    /\ dur' = result.duration
    /\ maxTime' = result.maxTime
    /\ mainGoal' = result.mainGoal
    /\ pc' = "done"

\* the call of handleCoop: it runs to its end, or to the await of
\* addGradeSpecs when the contract has no gradeSpecs yet
HandleCoopCall ==
    /\ pc = "start"
    /\ IF EnterCoop(snap, contract, maj) # ""
       THEN /\ FinishCoop(CriticalError(EnterCoop(snap, contract, maj),
                                        snap, NotRun, NothingFound))
            /\ UNCHANGED contract
       ELSE IF contract.gradeSpecs.k = "undef"
       THEN /\ pc' = "awaitSpecs"
            /\ UNCHANGED <<snap, maxTime, mainGoal, dur, contract, out>>
       ELSE /\ FinishCoop(ScoreCoop(snap, contract, maj))
            /\ UNCHANGED contract
    /\ UNCHANGED <<bh, bhIn, refTs, bv, snapIn, maj, ratios, factors,
                   pipelineVars>>

\* addGradeSpecs settles: it throws (no collection URL, failed fetch,
\* response without gradeSpecs) or stores the fetched gradeSpecs in the
\* contract, and handleCoop resumes
AddGradeSpecsSettle ==
    /\ pc = "awaitSpecs"
    /\ \E response \in SpecResponses :
          IF ~contract.gradeSpecCollection
          THEN /\ FinishCoop(CriticalError(
                    "Failed to add grade specs: Error adding grade specifications: Grade specification collection URL is missing.",
                    snap, NotRun, NothingFound))
               /\ UNCHANGED contract
          ELSE IF ~response.ok
          THEN /\ FinishCoop(CriticalError(
                    "Failed to add grade specs: Error adding grade specifications: Failed to fetch path",
                    snap, NotRun, NothingFound))
               /\ UNCHANGED contract
          ELSE IF response.gradeSpecs.k = "undef"
          THEN /\ FinishCoop(CriticalError(
                    "Failed to add grade specs: Error adding grade specifications: Failed to fetch grade specifications or invalid data structure.",
                    snap, NotRun, NothingFound))
               /\ UNCHANGED contract
          ELSE /\ contract' = [contract EXCEPT !.gradeSpecs = response.gradeSpecs]
               /\ FinishCoop(ScoreCoop(snap, contract', maj))
    /\ UNCHANGED <<bh, bhIn, refTs, bv, snapIn, maj, ratios, factors,
                   pipelineVars>>

NextCoop == HandleCoopCall \/ AddGradeSpecsSettle

SpecCoop == InitCoop /\ [][NextCoop]_vars

--------------------------------------------------------------------------
(* Claims about handleCoop, checked under SpecCoop *)

IsObject(user) == ~user.isNull

\* handleCoop has returned and the coop-level setup succeeded
SetupSucceeded ==
    pc = "done" /\ out.settled = "resolved" /\ out.error = ""

\* a contributor whose calculation fails: the amount is not a number, the
\* buffHistory is not an array, or the contract's maxCoopSize is no integer
PlayerFails(user) ==
    \/ ~IsNumber(user.contributionAmount)
    \/ user.buffHistory.k = "notarray"
    \/ ~IsInteger(contract.maxCoopSize)

\* the eiUuid a record carries for a contributor
UuidOrUnknown(user) == IF user.eiUuid = "" THEN "unknown" ELSE user.eiUuid

\* user.contributionAmount, or 0 when there is none
RawAmountOrZero(user) ==
    IF user.contributionAmount = Undef THEN Num(0)
    ELSE user.contributionAmount

\* the contributor with a numeric amount and an array buffHistory
Repaired(user) ==
    [user EXCEPT !.contributionAmount = Num(129600),
                 !.buffHistory = List(<<LateBuff>>)]

\* the index in userData of the record of the non-null contributor i
RecordIndex(users, i) == Cardinality({j \in 1..i : IsObject(users[j])})

\* the userData of the same call with contributor i repaired
UserDataRepaired(i) ==
    ScoreCoop([snapIn EXCEPT !.coopContributors.items[i] = Repaired(@)],
              contract, maj).userData

\* the sentinel record of a failing contributor
IsSentinel(record, user) ==
    /\ record.error # ""
    /\ record.cs = Num(0)
    /\ record.upperCS = Num(0)
    /\ record.eggsShipped = RawAmountOrZero(user)

\* the others' records do not depend on the failure of contributor i
Isolated(users, i) ==
    LET repaired == UserDataRepaired(i)
    IN  /\ Len(repaired) = Len(out.userData)
        /\ \A k \in 1..Len(out.userData) :
              k # RecordIndex(users, i) => repaired[k] = out.userData[k]

\* C1 as stated: once the coop-level setup has succeeded, userData holds
\* exactly one record per entry of coopContributors, in the same order; a
\* contributor whose calculation fails yields a sentinel record (cs = 0,
\* upperCS = 0, eggsShipped the raw amount or 0, a non-empty error), and the
\* other records are as if the failing contributor had been valid.
C1_OneRecordPerEntry ==
    SetupSucceeded =>
        LET users == snapIn.coopContributors.items
        IN  /\ Len(out.userData) = Len(users)
            /\ \A i \in 1..Len(users) :
                  /\ out.userData[i].eiUuid = UuidOrUnknown(users[i])
                  /\ PlayerFails(users[i]) =>
                        /\ IsSentinel(out.userData[i], users[i])
                        /\ Isolated(users, i)

\* C1 amended: once the coop-level setup has succeeded, userData holds
\* exactly one record per non-null entry of coopContributors, in the same
\* order, and none for a null entry; a contributor whose calculation fails,
\* and no other, yields a sentinel record (cs = 0, upperCS = 0, eggsShipped
\* the raw amount or 0, a non-empty error), and the other records are as if
\* the failing contributor had been valid.
C1_OneRecordPerNonNullEntry ==
    SetupSucceeded =>
        LET users == snapIn.coopContributors.items
        IN  /\ Len(out.userData) = Len(SelectSeq(users, IsObject))
            /\ \A i \in 1..Len(users) :
                  IsObject(users[i]) =>
                    LET record == out.userData[RecordIndex(users, i)]
                    IN  /\ record.eiUuid = UuidOrUnknown(users[i])
                        /\ (record.error # "") <=> PlayerFails(users[i])
                        /\ PlayerFails(users[i]) =>
                              /\ IsSentinel(record, users[i])
                              /\ Isolated(users, i)

\* C1 witness: a completed coop whose first contributor has a string for
\* an amount and whose second contributor is scored.
C1_Witness ==
    /\ SetupSucceeded
    /\ snapIn.allGoalsAchieved
    /\ Len(snapIn.coopContributors.items) = 2
    /\ snapIn.coopContributors.items[1].contributionAmount = Str
    /\ Len(out.userData) = 2
    /\ out.userData[1].error = "Invalid contribution amount for user"
    /\ out.userData[1].cs = Num(0)
    /\ out.userData[2].eiUuid = "p2"
    /\ out.userData[2].error = ""
    /\ JLt(Num(0), out.userData[2].cs)

\* the grade codes of the multiplier table, in either case
GradeKnown(grade) ==
    grade \in {"aaa", "AAA", "aa", "AA", "Aa", "a", "A", "b", "B", "c", "C"}

\* the gradeSpecs of the contract for the coop's grade
MatchingSpecs ==
    {i \in 1..Len(contract.gradeSpecs.items) :
        contract.gradeSpecs.items[i].eiIdentifier
            = "GRADE_" \o ToUpperCase(maj.grade)}

FirstMatchingSpec ==
    contract.gradeSpecs.items[
        CHOOSE i \in MatchingSpecs : \A j \in MatchingSpecs : i <= j]

\* the grade spec of the coop's grade is unusable
SpecUnusable(gradeSpec) ==
    \/ gradeSpec.goals.k # "array"
    \/ gradeSpec.goals.items = <<>>
    \/ gradeSpec.goals.items[Len(gradeSpec.goals.items)] = Null
    \/ ~IsInteger(gradeSpec.lengthSeconds)

\* a coop-level failure: an input is missing, the grade specs could not be
\* added, the grade is missing or unknown, its spec is missing or unusable,
\* the duration estimation failed, or there is no contributor array
SetupFails ==
    \/ ~snapIn.present
    \/ ~contract.present
    \/ ~maj.present
    \/ contract.gradeSpecs.k = "undef"
    \/ ~GradeKnown(maj.grade)
    \/ MatchingSpecs = {}
    \/ SpecUnusable(FirstMatchingSpec)
    \/ dur # NotRun /\ ~dur.ok
    \/ snapIn.coopContributors.k # "array"

Rateless(user) ==
    /\ IsObject(user)
    /\ ~IsNumber(user.contributionRate)
    /\ ~IsNumber(user.contributionRatePerSecond)

HasRateless(coopStatus) ==
    \E i \in 1..Len(Contributors(coopStatus).items) :
        Rateless(Contributors(coopStatus).items[i])

\* C8: when a contributor of an in-progress coop has neither numeric rate,
\* getCoopDuration, if the setup gets to it, fails, and handleCoop returns
\* an error object with userData = []: no player is scored.
C8_MissingRatesAbortCoop ==
    (pc = "done" /\ snapIn.present /\ ~snapIn.allGoalsAchieved
        /\ HasRateless(snapIn)) =>
        /\ ~dur.ok
        /\ (maxTime # Null /\ mainGoal # Null) => dur # NotRun
        /\ out.error # ""
        /\ out.userData = <<>>

\* C8 witness: an in-progress coop of a valid and a rateless contributor,
\* with a usable grade spec, was aborted by getCoopDuration.
C8_Witness ==
    /\ pc = "done"
    /\ ~snapIn.allGoalsAchieved
    /\ Len(snapIn.coopContributors.items) = 2
    /\ ~Rateless(snapIn.coopContributors.items[1])
    /\ Rateless(snapIn.coopContributors.items[2])
    /\ dur.err = "Invalid contributor data: contributionRate or contributionRatePerSecond must be a number."
    /\ out.error = "Failed to calculate coop duration: Invalid contributor data: contributionRate or contributionRatePerSecond must be a number."
    /\ out.userData = <<>>

\* C13: the estimators leave the snapshot unchanged: when handleCoop (with
\* its calls of getCoopDuration and calculateBuffTimeValue) has returned,
\* every field of the coop status, the content and order of every
\* contributor's buffHistory included, is what it was at the call.
C13_SnapshotUnchanged ==
    pc = "done" => snap = snapIn

\* the multiplier of the table for a grade code in either case
TableMultiplier(grade) ==
    CASE grade \in {"aaa", "AAA"} -> Num(7)
      [] grade \in {"aa", "AA", "Aa"} -> Num(5)
      [] grade \in {"a", "A"} -> Rat(7, 2)
      [] grade \in {"b", "B"} -> Num(2)
      [] grade \in {"c", "C"} -> Num(1)

\* the grade multiplier that went into the cs of a scored record:
\* cs / (contributionFactor x completionTimeBonus x teamWork x 187.5
\*       x (1 + maxAllowedSeconds / 259200))
ImpliedMultiplier(record) ==
    JDiv(record.cs,
         JMul(JMul(JMul(JMul(record.contributionFactor,
                             record.completionTimeBonus),
                        record.teamWork),
                   Rat(375, 2)),
              JAdd(Num(1), JDiv(maxTime, Num(259200)))))

\* handleCoop got as far as the grade
GradeReached ==
    /\ pc = "done"
    /\ snapIn.present /\ contract.present /\ maj.present
    /\ contract.gradeSpecs.k = "array"
    /\ maj.grade # ""

\* C16: the grade is resolved without regard to case with the table
\* aaa 7, aa 5, a 3.5, b 2, c 1; any other grade code gives the unknown-grade
\* error with userData = [], never a multiplier.
C16_GradeTable ==
    GradeReached =>
        IF GradeKnown(maj.grade)
        THEN \A k \in 1..Len(out.userData) :
                out.userData[k].error = "" =>
                    ImpliedMultiplier(out.userData[k])
                        = TableMultiplier(maj.grade)
        ELSE /\ out.error = "Unknown grade: " \o maj.grade
             /\ out.userData = <<>>

\* the last element of the goals of a grade spec
LastGoal(gradeSpec) == gradeSpec.goals.items[Len(gradeSpec.goals.items)]

\* C17: the main goal and the allowed time used for scoring are those of
\* the grade spec that matches the coop's grade: the targetAmount of the
\* last goal of that spec and its lengthSeconds; a lengthSeconds that is no
\* integer fails the coop.
C17_GoalAndTimeOfMatchingSpec ==
    (GradeReached /\ GradeKnown(maj.grade) /\ MatchingSpecs # {}
        /\ FirstMatchingSpec.goals.k = "array"
        /\ FirstMatchingSpec.goals.items # <<>>) =>
        IF ~IsInteger(FirstMatchingSpec.lengthSeconds)
        THEN /\ out.error = "Contract length must be an integer"
             /\ out.userData = <<>>
        ELSE /\ mainGoal = LastGoal(FirstMatchingSpec)
             /\ maxTime = FirstMatchingSpec.lengthSeconds
             /\ \A k \in 1..Len(out.userData) :
                   out.userData[k].error = "" =>
                     /\ out.userData[k].contributionRatio =
                          JDiv(out.userData[k].eggsShipped,
                               JDiv(LastGoal(FirstMatchingSpec),
                                    contract.maxCoopSize))
                     /\ out.userData[k].timeToCompleteFactor =
                          JDiv(dur.val, FirstMatchingSpec.lengthSeconds)

\* C17 witness: the matching spec has the goals 518400, 259200 and a player
\* with 129600 eggs in a coop of size 2 was scored with the ratio 1; and a
\* grade b coop took 129600 s from the spec of grade B that precedes the
\* spec of grade AAA.
C17_Witness ==
    /\ pc = "done"
    /\ out.error = ""
    /\ \/ /\ FirstMatchingSpec.goals.items = <<Num(518400), Num(259200)>>
          /\ mainGoal = Num(259200)
          /\ Len(out.userData) = 1
          /\ out.userData[1].eggsShipped = Num(129600)
          /\ out.userData[1].contributionRatio = Num(1)
       \/ /\ maj.grade = "b"
          /\ Len(contract.gradeSpecs.items) = 2
          /\ maxTime = Num(129600)
          /\ mainGoal = Num(129600)
          /\ Len(out.userData) = 1

\* C18: when no grade spec of the contract matches the coop's grade
\* identifier, handleCoop gives the spec-not-found error with userData = [];
\* no goal or time is taken from another grade's spec, no duration is
\* estimated and no player is scored.
C18_NoSpecNoScore ==
    (GradeReached /\ GradeKnown(maj.grade) /\ MatchingSpecs = {}) =>
        /\ out.error = "Could not find grade specification for grade GRADE_"
                          \o ToUpperCase(maj.grade)
        /\ out.userData = <<>>
        /\ mainGoal = Null
        /\ maxTime = Null
        /\ dur = NotRun

\* C18 witness: a coop of grade b with a contributor and a contract that
\* has a usable spec of grade AAA only.
C18_Witness ==
    /\ pc = "done"
    /\ maj.grade = "b"
    /\ contract.gradeSpecs = ValidSpecs("GRADE_AAA")
    /\ snapIn.coopContributors.items = <<ValidPlayer>>
    /\ out.error = "Could not find grade specification for grade GRADE_B"
    /\ out.userData = <<>>

\* C19: every record of userData, scored or sentinel, carries the same
\* greenScroll: (allGoalsAchieved and allMembersReporting) or
\* gracePeriodSecondsRemaining = 0, of the coop status.
C19_SameGreenScroll ==
    SetupSucceeded =>
        \A k \in 1..Len(out.userData) :
            out.userData[k].greenScroll =
                (\/ snapIn.allGoalsAchieved /\ snapIn.allMembersReporting
                 \/ snapIn.gracePeriodSecondsRemaining = Num(0))

\* C19 witness: a coop in progress with no grace period left: the scored
\* record and the sentinel record both have the green scroll.
C19_Witness ==
    /\ SetupSucceeded
    /\ ~snapIn.allGoalsAchieved
    /\ snapIn.gracePeriodSecondsRemaining = Num(0)
    /\ Len(out.userData) = 2
    /\ out.userData[1].error = ""
    /\ out.userData[2].error # ""
    /\ out.userData[1].greenScroll
    /\ out.userData[2].greenScroll

\* C20: cs and upperCS are a lower and an upper bound: cs <= upperCS in
\* every record of userData, whatever duration getCoopDuration returned,
\* durations above the allowed time included.
C20_LowerBelowUpper ==
    SetupSucceeded =>
        \A k \in 1..Len(out.userData) :
            JLe(out.userData[k].cs, out.userData[k].upperCS)


\* C29: for every scored (non-sentinel) record, B = min(buffValue /
\* duration, 2) is a number in [0, 2], so teamWork lies in [1, 1.1] and
\* upperTeamWork = teamWork + 0.16, for every duration getCoopDuration can
\* return, duration 0 included; cs and upperCS are always finite numbers.
C29_TeamWorkInRange ==
    SetupSucceeded =>
        \A k \in 1..Len(out.userData) :
            out.userData[k].error = "" =>
                LET B == JMin(JDiv(out.userData[k].buffValue, dur.val), Num(2))
                IN  /\ B.t = "num"
                    /\ JLe(Num(0), B) /\ JLe(B, Num(2))
                    /\ JLe(Num(1), out.userData[k].teamWork)
                    /\ JLe(out.userData[k].teamWork, Rat(11, 10))
                    /\ out.userData[k].upperTeamWork
                          = JAdd(out.userData[k].teamWork, Rat(4, 25))
                    /\ out.userData[k].cs.t = "num"
                    /\ out.userData[k].upperCS.t = "num"


\* C21 as stated: for every record that handleCoop places in userData,
\* calculateContributionFactor applied to the record's contributionRatio
\* gives the record's contributionFactor.
C21_RoundTripEveryRecord ==
    (pc = "done") =>
        \A i \in 1..Len(out.userData) :
            calculateContributionFactor(out.userData[i].contributionRatio)
                = out.userData[i].contributionFactor

\* C21 amended: for every scored record (one without an error) that
\* handleCoop places in userData, calculateContributionFactor applied to the
\* record's contributionRatio gives the record's contributionFactor; a
\* sentinel record carries ratio 0 and factor 0.
C21_RoundTripScoredRecords ==
    (pc = "done") =>
        \A i \in 1..Len(out.userData) :
            LET record == out.userData[i]
            IN  IF record.error = ""
                THEN calculateContributionFactor(record.contributionRatio)
                         = record.contributionFactor
                ELSE /\ record.contributionRatio = Num(0)
                     /\ record.contributionFactor = Num(0)

\* C21 witness: one coop with a record on the linear branch (ratio 3) and a
\* record above the cap (ratio 20), both reproduced.
C21_Witness ==
    /\ pc = "done"
    /\ Len(out.userData) = 2
    /\ out.userData[1].error = "" /\ out.userData[2].error = ""
    /\ out.userData[1].contributionRatio = Num(3)
    /\ out.userData[1].contributionFactor = Rat(4453116, 1000000)
    /\ out.userData[2].contributionRatio = Num(20)
    /\ out.userData[2].contributionFactor = Rat(4664111, 1000000)
    /\ calculateContributionFactor(Num(20)) = out.userData[2].contributionFactor


--------------------------------------------------------------------------
(* Specification of one batch of handleCoop calls on a shared contract *)

\* options.maxParallel as main passes it
maxParallel == 3

\* addGradeSpecs with the response its fetch comes back with: the contract
\* object with gradeSpecs stored in it, or the error thrown
addGradeSpecs(eggCoopContract, response) ==
    IF ~eggCoopContract.gradeSpecCollection
    THEN [ok |-> FALSE, contract |-> eggCoopContract,
          err |-> "Error adding grade specifications: Grade specification collection URL is missing."]
    ELSE IF ~response.ok
    THEN [ok |-> FALSE, contract |-> eggCoopContract,
          err |-> "Error adding grade specifications: Failed to fetch path"]
    ELSE IF response.gradeSpecs.k = "undef"
    THEN [ok |-> FALSE, contract |-> eggCoopContract,
          err |-> "Error adding grade specifications: Failed to fetch grade specifications or invalid data structure."]
    ELSE [ok |-> TRUE, err |-> "",
          contract |-> [eggCoopContract EXCEPT !.gradeSpecs = response.gradeSpecs]]

\* handleCoop after the await of addGradeSpecs
ResumeCoop(eggCoopCoop, added, majCoopCoop) ==
    IF added.ok
    THEN ScoreCoop(eggCoopCoop, added.contract, majCoopCoop)
    ELSE CriticalError("Failed to add grade specs: " \o added.err,
                       eggCoopCoop, NotRun, NothingFound)

\* a call of handleCoop that runs from its start to its end with no other
\* call in between; response is what its grade spec fetch comes back with
handleCoop(eggCoopCoop, contractData, majCoopCoop, response) ==
    IF EnterCoop(eggCoopCoop, contractData, majCoopCoop) # ""
    THEN CriticalError(EnterCoop(eggCoopCoop, contractData, majCoopCoop),
                       eggCoopCoop, NotRun, NothingFound)
    ELSE IF contractData.gradeSpecs.k = "undef"
    THEN ResumeCoop(eggCoopCoop, addGradeSpecs(contractData, response),
                    majCoopCoop)
    ELSE ScoreCoop(eggCoopCoop, contractData, majCoopCoop)

\* what the caller sees of a settled call
Settled(outcome) ==
    [settled |-> outcome.settled, error |-> outcome.error,
     userData |-> outcome.userData]

\* one coop of the batch: its own coop status and majCoopCoop, the response
\* its grade spec fetch gets if it is made, and the promise of its call
BatchCallOf(eggCoopCoop, majCoopCoop, response) ==
    [st |-> "waiting", eggCoopCoop |-> eggCoopCoop,
     majCoopCoop |-> majCoopCoop, response |-> response, result |-> Pending]

BatchCalls ==
    {BatchCallOf(CompletedCoop(List(<<ValidPlayer>>)), MajCoop(grade), response) :
        grade \in {"aaa", "a"}, response \in SpecResponses}

\* the contract of the batch: without gradeSpecs (as the contract list
\* delivers it), without a collection URL, already with gradeSpecs
BatchContracts ==
    {Contract(NoList, Num(2), TRUE), Contract(NoList, Num(2), FALSE),
     Contract(ValidSpecs("GRADE_AAA"), Num(2), TRUE)}

AllSettled(calls) == \A k \in 1..Len(calls) : calls[k].st = "done"

InitBatch ==
    /\ pc = "start"
    /\ batch \in UNION {[1..n -> BatchCalls] : n \in 1..maxParallel}
    /\ contract \in BatchContracts
    /\ contractIn = contract
    /\ IdleRun
    /\ IdleFetch
    /\ snap = CompletedCoop(List(<<ValidPlayer>>))
    /\ snapIn = snap
    /\ maj = MissingMaj
    /\ maxTime = Null
    /\ mainGoal = Null
    /\ dur = NotRun
    /\ out = Pending
    /\ IdleBuff
    /\ IdleFactor

\* the batch after call k has settled with an outcome
SettleCall(k, outcome) ==
    /\ batch' = [batch EXCEPT ![k].st = "done",
                              ![k].result = Settled(outcome)]
    /\ pc' = IF AllSettled(batch') THEN "done" ELSE "start"

\* handleCoop is called for the k-th coop of the batch (its coop status
\* has arrived): it runs to its end, or to the await of addGradeSpecs when
\* the shared contract has no gradeSpecs at that moment
BatchHandleCoop(k) ==
    /\ batch[k].st = "waiting"
    /\ LET call == batch[k]
           error == EnterCoop(call.eggCoopCoop, contract, call.majCoopCoop)
       IN  IF error # ""
           THEN SettleCall(k, CriticalError(error, call.eggCoopCoop,
                                            NotRun, NothingFound))
           ELSE IF contract.gradeSpecs.k = "undef"
           THEN /\ batch' = [batch EXCEPT ![k].st = "awaitSpecs"]
                /\ UNCHANGED pc
           ELSE SettleCall(k, ScoreCoop(call.eggCoopCoop, contract,
                                        call.majCoopCoop))
    /\ UNCHANGED <<contract, contractIn, snap, snapIn, maj, maxTime, mainGoal,
                   dur, out, bh, bhIn, refTs, bv, ratios, factors, runVars,
                   fetchVars>>

\* the addGradeSpecs of call k settles: on success it has written the
\* gradeSpecs into the shared contract object, and the call resumes
BatchAddGradeSpecs(k) ==
    /\ batch[k].st = "awaitSpecs"
    /\ LET call == batch[k]
           added == addGradeSpecs(contract, call.response)
       IN  /\ contract' = added.contract
           /\ SettleCall(k, ResumeCoop(call.eggCoopCoop, added,
                                       call.majCoopCoop))
    /\ UNCHANGED <<contractIn, snap, snapIn, maj, maxTime, mainGoal,
                   dur, out, bh, bhIn, refTs, bv, ratios, factors, runVars,
                   fetchVars>>

NextBatch ==
    \E k \in 1..Len(batch) : BatchHandleCoop(k) \/ BatchAddGradeSpecs(k)

SpecBatch == InitBatch /\ [][NextBatch]_vars

--------------------------------------------------------------------------
(* Claims about interleaved handleCoop calls, checked under SpecBatch *)

\* the result of call k when it runs alone on the contract of the batch
AloneResult(k) ==
    Settled(handleCoop(batch[k].eggCoopCoop, contractIn,
                       batch[k].majCoopCoop, batch[k].response))

\* C22: when several handleCoop calls for coops of the same contract run
\* interleaved, each call reads and writes only its own inputs, and the
\* result of each call is the same as when it runs alone, whatever the
\* interleaving.
C22_ResultAsWhenAlone ==
    \A k \in 1..Len(batch) :
        batch[k].st = "done" => batch[k].result = AloneResult(k)


--------------------------------------------------------------------------
(* Specification of main and processCoopsWithRateLimiting *)

\* number of coops to process before writing to file
SAVE_INTERVAL == 50

\* options.requestDelay and options.batchDelay as main passes them, in ms
requestDelay == 500
batchDelay == 2000

\* a coop of a majCoopsObject; its processing result (fullCoopData) is
\* identified with it
MajCoopOf(contractId, code) == [contract |-> contractId, code |-> code]

MajCoopsObject(contractId, n) ==
    [contract |-> contractId,
     coops |-> [code \in 1..n |-> MajCoopOf(contractId, code)]]

\* the null that stands for a coop whose processing threw
NullResult == MajCoopOf("", 0)

\* the longest coops array of a majCoopsObject
MaxCoops == 103

\* the coops with a code up to MaxFlaky are the ones whose processing may
\* throw
MaxFlaky == 2

CoopCounts == {0, 1, 4, SAVE_INTERVAL + 1, SAVE_INTERVAL + 2, MaxCoops}

\* the lists getMajCoops hands to main: one contract with few or many
\* coops, a contract that is not among the seasonal contracts, two contracts
RunInputs ==
    {<<MajCoopsObject("k1", n)>> : n \in CoopCounts}
    \cup {<<>>,
          <<MajCoopsObject("gone", 2), MajCoopsObject("k1", 4)>>,
          <<MajCoopsObject("k1", 2), MajCoopsObject("k2", 4)>>}

\* the coops file before the run: empty, or with a coop of an earlier run
OldFiles == {<<>>, <<MajCoopOf("k0", 1)>>}

\* seasonalContracts.find((c) => c.contractIdentifier === contract)
ContractFound(contractId) ==
    \E j \in 1..Len(seasonalContracts) : seasonalContracts[j] = contractId

RECURSIVE CountCoops(_)
CountCoops(objects) ==
    IF objects = <<>> THEN 0
    ELSE Len(Head(objects).coops) + CountCoops(Tail(objects))

\* majCoopsObject.coops.slice(start, start + maxParallel)
BatchSlice(list, start) ==
    SubSeq(list, start + 1,
           IF start + maxParallel < Len(list) THEN start + maxParallel
           ELSE Len(list))

\* batch.map(async (coop, index) => ...): every callback runs to the await
\* of its staggered timer
BatchPromisesOf(slice) ==
    [k \in 1..Len(slice) |->
        [coop |-> slice[k], st |-> "delayed", startedAt |-> 0,
         result |-> NullResult]]

\* a timer that fires without its delay
TimerDueAtOnce(index) == TRUE

\* setTimeout(resolve, index * requestDelay), index counted from 0
TimerDue(index) == clock >= index * requestDelay

\* the array Promise.all resolves with
BatchResults(promises) == [k \in 1..Len(promises) |-> promises[k].result]

\* a filter that keeps the nulls
ValidResultsWithNull(results) == results

\* batchResults.filter((result) => result !== null)
ValidResults(results) == SelectSeq(results, LAMBDA r : r # NullResult)

BatchDone(promises) ==
    \A k \in 1..Len(promises) : promises[k].st = "settled"

InitRun ==
    /\ pc = "main"
    /\ coops \in RunInputs
    /\ seasonalContracts = <<"k1", "k2">>
    /\ clearCoopsFile \in BOOLEAN
    /\ coopsFile \in OldFiles
    /\ mainExistingCoops = <<>>
    /\ existingCoops = <<>>
    /\ processedCoops = <<>>
    /\ processedCount = 0
    /\ totalCoopCount = 0
    /\ saveCounter = 0
    /\ objectIndex = 0
    /\ batchStart = 0
    /\ batchPromises = <<>>
    /\ clock = 0
    /\ attempted = <<>>
    /\ pushed = <<>>
    /\ IdleDuration
    /\ IdleBuff
    /\ IdleCoop
    /\ IdleBatch
    /\ IdleFetch

outsideRun == <<snap, maxTime, mainGoal, dur, bh, bhIn, refTs, bv, snapIn,
                 contract, maj, out, ratios, factors, batch, contractIn,
                 fetchVars>>

runInputs == <<coops, seasonalContracts, clearCoopsFile>>

\* main from the coops file to the call of processCoopsWithRateLimiting,
\* and that function up to its loop (index.js:269-310, 75-92)
MainStart ==
    /\ pc = "main"
    /\ IF clearCoopsFile
       THEN /\ coopsFile' = <<>>
            /\ mainExistingCoops' = <<>>
       ELSE /\ mainExistingCoops' = coopsFile
            /\ UNCHANGED coopsFile
    /\ existingCoops' = mainExistingCoops'
    /\ processedCoops' = <<>>
    /\ processedCount' = 0
    /\ saveCounter' = 0
    /\ totalCoopCount' = CountCoops(coops)
    /\ objectIndex' = 1
    /\ pc' = "object"
    /\ UNCHANGED <<batchStart, batchPromises, clock, attempted, pushed,
                   runInputs, outsideRun>>

\* the loop over the majCoopsObjects is over: the function returns
ProcessReturns ==
    /\ pc = "object"
    /\ objectIndex > Len(coops)
    /\ pc' = "returned"
    /\ UNCHANGED <<coopsFile, mainExistingCoops, existingCoops, processedCoops,
                   processedCount, totalCoopCount, saveCounter, objectIndex,
                   batchStart, batchPromises, clock, attempted, pushed,
                   runInputs, outsideRun>>

\* a majCoopsObject whose contract is not among the seasonal contracts
SkipContract ==
    /\ pc = "object"
    /\ objectIndex <= Len(coops)
    /\ ~ContractFound(coops[objectIndex].contract)
    /\ objectIndex' = objectIndex + 1
    /\ UNCHANGED <<pc, coopsFile, mainExistingCoops, existingCoops,
                   processedCoops, processedCount, totalCoopCount, saveCounter,
                   batchStart, batchPromises, clock, attempted, pushed,
                   runInputs, outsideRun>>

\* the batch that begins at offset start of the current majCoopsObject
BeginBatch(start) ==
    /\ batchStart' = start
    /\ batchPromises' = BatchPromisesOf(BatchSlice(coops[objectIndex].coops, start))
    /\ clock' = 0
    /\ pc' = "batch"

\* a majCoopsObject whose contract is found: its first batch begins, or it
\* has no coops
EnterObject ==
    /\ pc = "object"
    /\ objectIndex <= Len(coops)
    /\ ContractFound(coops[objectIndex].contract)
    /\ IF Len(coops[objectIndex].coops) = 0
       THEN /\ objectIndex' = objectIndex + 1
            /\ UNCHANGED <<pc, batchStart, batchPromises, clock>>
       ELSE /\ BeginBatch(0)
            /\ UNCHANGED objectIndex
    /\ UNCHANGED <<coopsFile, mainExistingCoops, existingCoops, processedCoops,
                   processedCount, totalCoopCount, saveCounter, attempted,
                   pushed, runInputs, outsideRun>>

\* time passes while a timer is pending
Tick ==
    /\ \/ /\ pc = "batch"
          /\ \E k \in 1..Len(batchPromises) : batchPromises[k].st = "delayed"
          /\ clock < (Len(batchPromises) - 1) * requestDelay
       \/ /\ pc = "batchDelay"
          /\ clock < batchDelay
    /\ clock' = clock + requestDelay
    /\ UNCHANGED <<pc, coopsFile, mainExistingCoops, existingCoops,
                   processedCoops, processedCount, totalCoopCount, saveCounter,
                   objectIndex, batchStart, batchPromises, attempted, pushed,
                   runInputs, outsideRun>>

\* the staggered timer of the k-th callback fires (timers fire in the order
\* of their delays) and the callback calls getEggCoopCoop
TimerFires(k) ==
    /\ pc = "batch"
    /\ batchPromises[k].st = "delayed"
    /\ TimerDue(k - 1)
    /\ \A j \in 1..(k - 1) : batchPromises[j].st # "delayed"
    /\ batchPromises' = [batchPromises EXCEPT ![k].st = "running",
                                              ![k].startedAt = clock]
    /\ attempted' = Append(attempted, batchPromises[k].coop)
    /\ UNCHANGED <<pc, coopsFile, mainExistingCoops, existingCoops,
                   processedCoops, processedCount, totalCoopCount, saveCounter,
                   objectIndex, batchStart, clock, pushed, runInputs,
                   outsideRun>>

\* getEggCoopCoop and handleCoop have resolved: the callback counts the coop
\* and returns fullCoopData
CoopReturns(k) ==
    /\ pc = "batch"
    /\ batchPromises[k].st = "running"
    /\ batchPromises' = [batchPromises EXCEPT ![k].st = "settled",
                                              ![k].result = batchPromises[k].coop]
    /\ processedCount' = processedCount + 1
    /\ saveCounter' = saveCounter + 1
    /\ UNCHANGED <<pc, coopsFile, mainExistingCoops, existingCoops,
                   processedCoops, totalCoopCount, objectIndex, batchStart,
                   clock, attempted, pushed, runInputs, outsideRun>>

\* an awaited call has thrown: the catch of the callback returns null
CoopThrows(k) ==
    /\ pc = "batch"
    /\ batchPromises[k].st = "running"
    /\ batchPromises[k].coop.code <= MaxFlaky
    /\ batchPromises' = [batchPromises EXCEPT ![k].st = "settled",
                                              ![k].result = NullResult]
    /\ UNCHANGED <<pc, coopsFile, mainExistingCoops, existingCoops,
                   processedCoops, processedCount, totalCoopCount, saveCounter,
                   objectIndex, batchStart, clock, attempted, pushed,
                   runInputs, outsideRun>>

\* Promise.all has resolved: the valid results are collected, the progress
\* is saved when SAVE_INTERVAL is reached, and the loop goes on with the
\* batch delay or with the next majCoopsObject (index.js:182-221)
BatchSettled ==
    /\ pc = "batch"
    /\ BatchDone(batchPromises)
    /\ LET validResults == ValidResults(BatchResults(batchPromises))
           collected == processedCoops \o validResults
       IN  /\ pushed' = pushed \o validResults
           /\ IF saveCounter >= SAVE_INTERVAL /\ Len(collected) > 0
              THEN /\ coopsFile' = existingCoops \o collected
                   /\ existingCoops' = existingCoops \o collected
                   /\ processedCoops' = <<>>
                   /\ saveCounter' = 0
              ELSE /\ processedCoops' = collected
                   /\ UNCHANGED <<coopsFile, existingCoops, saveCounter>>
    /\ batchPromises' = <<>>
    /\ clock' = 0
    /\ IF batchStart + maxParallel < Len(coops[objectIndex].coops)
       THEN /\ pc' = "batchDelay"
            /\ UNCHANGED objectIndex
       ELSE /\ pc' = "object"
            /\ objectIndex' = objectIndex + 1
    /\ UNCHANGED <<mainExistingCoops, processedCount, totalCoopCount,
                   batchStart, attempted, runInputs, outsideRun>>

\* the delay between two batches is over: the next batch begins
BatchDelayOver ==
    /\ pc = "batchDelay"
    /\ clock >= batchDelay
    /\ BeginBatch(batchStart + maxParallel)
    /\ UNCHANGED <<coopsFile, mainExistingCoops, existingCoops, processedCoops,
                   processedCount, totalCoopCount, saveCounter, objectIndex,
                   attempted, pushed, runInputs, outsideRun>>

\* main after processCoopsWithRateLimiting has returned: the final save
\* (index.js:323-340)
MainFinish ==
    /\ pc = "returned"
    /\ IF Len(processedCoops) > 0
       THEN coopsFile' = mainExistingCoops \o processedCoops
       ELSE UNCHANGED coopsFile
    /\ pc' = "finished"
    /\ UNCHANGED <<mainExistingCoops, existingCoops, processedCoops,
                   processedCount, totalCoopCount, saveCounter, objectIndex,
                   batchStart, batchPromises, clock, attempted, pushed,
                   runInputs, outsideRun>>

NextRun ==
    \/ MainStart
    \/ ProcessReturns
    \/ SkipContract
    \/ EnterObject
    \/ Tick
    \/ \E k \in 1..Len(batchPromises) :
          TimerFires(k) \/ CoopReturns(k) \/ CoopThrows(k)
    \/ BatchSettled
    \/ BatchDelayOver
    \/ MainFinish

SpecRun == InitRun /\ [][NextRun]_vars

\* timers fire and every request settles (fetch resolves or rejects)
SpecRunFair == SpecRun /\ WF_vars(NextRun)


--------------------------------------------------------------------------
(* Claims about main and processCoopsWithRateLimiting *)

\* C23: when main finishes, the coops file contains the coops that existed
\* at the start of the run followed by every coop processed successfully
\* during the run, each exactly once, for any number of coops and any number
\* of periodic saves before the final save.
C23_FileHoldsEveryCoop ==
    (pc = "finished") => coopsFile = mainExistingCoops \o pushed


\* the callbacks of the batch that have started and not settled
InFlight == {k \in 1..Len(batchPromises) : batchPromises[k].st = "running"}

\* the coops of the majCoopsObjects whose contract is found, in order
RECURSIVE FoundCoops(_)
FoundCoops(objects) ==
    IF objects = <<>> THEN <<>>
    ELSE (IF ContractFound(Head(objects).contract) THEN Head(objects).coops
          ELSE <<>>) \o FoundCoops(Tail(objects))

IsPrefix(short, long) ==
    /\ Len(short) <= Len(long)
    /\ SubSeq(long, 1, Len(short)) = short

C27_Batches ==
    /\ Cardinality(InFlight) <= maxParallel
    /\ Len(batchPromises) <= maxParallel
    /\ IsPrefix(attempted, FoundCoops(coops))
    /\ pc = "batch" =>
          /\ batchStart % maxParallel = 0
          /\ \A k \in 1..Len(batchPromises) :
                /\ batchStart + k <= Len(coops[objectIndex].coops)
                /\ batchPromises[k].coop = coops[objectIndex].coops[batchStart + k]
                /\ batchPromises[k].st # "delayed" =>
                      batchPromises[k].startedAt >= (k - 1) * requestDelay
    /\ pc # "batch" => batchPromises = <<>>

C27_BatchLeft == (pc = "batch" /\ pc' # "batch") => BatchDone(batchPromises)

\* C27: never more than maxParallel coops are in flight: the coops of one
\* contract are processed in consecutive batches of at most maxParallel, the
\* next batch (and the next contract) starts only after every coop of the
\* current batch has settled, and within a batch the coop at index k starts
\* no earlier than k x requestDelay after the batch began.
C27_AtMostMaxParallelInFlight == []C27_Batches /\ [][C27_BatchLeft]_vars

\* C27 witness: a later batch of three coops, all in flight, the third one
\* started two request delays after the batch began.
C27_Witness ==
    /\ pc = "batch"
    /\ batchStart >= SAVE_INTERVAL
    /\ Cardinality(InFlight) = maxParallel
    /\ batchPromises[3].startedAt = 2 * requestDelay
    /\ batchPromises[1].startedAt = 0

\* the callbacks of the batch that have returned a result
Returned ==
    {k \in 1..Len(batchPromises) :
        batchPromises[k].st = "settled" /\ batchPromises[k].result # NullResult}

NoNull(results) == \A k \in 1..Len(results) : results[k] # NullResult

NoDuplicates(list) ==
    \A j, k \in 1..Len(list) : list[j] = list[k] => j = k

C28_Counters ==
    /\ processedCount <= totalCoopCount
    /\ saveCounter = Len(processedCoops) + Cardinality(Returned)
    /\ processedCount = Len(pushed) + Cardinality(Returned)
    /\ NoNull(processedCoops) /\ NoNull(pushed) /\ NoNull(coopsFile)
    /\ NoDuplicates(attempted)
    /\ pc \in {"returned", "finished"} =>
          /\ attempted = FoundCoops(coops)
          /\ Len(pushed) = processedCount
          /\ \A k \in 1..Len(pushed) :
                \E j \in 1..Len(attempted) : attempted[j] = pushed[k]

\* C28: processCoopsWithRateLimiting terminates, and when it does every coop
\* of every majCoopsObject whose contract is found has been attempted exactly
\* once; a coop whose processing throws is recorded as null, is excluded from
\* the results, and does not prevent the remaining coops from being
\* processed; at all times processedCount <= totalCoopCount and saveCounter
\* equals the number of unsaved processed coops.
C28_TerminatesEveryCoopOnce == []C28_Counters /\ <>(pc = "returned")

\* C28 witness: the function has returned after more than two save
\* intervals of coops, two of which threw.
C28_Witness ==
    /\ pc = "returned"
    /\ totalCoopCount > 2 * SAVE_INTERVAL
    /\ Len(attempted) = totalCoopCount
    /\ processedCount = totalCoopCount - 2


--------------------------------------------------------------------------
(* Specification of the season filter *)

\* the configuration values at the top of index.js
startingSeason == "winter_2025"
endingSeason == "spring_2025"

\* the longest /contracts response
MaxContracts == 3

\* the latest startTime of a contract
MaxStart == 3

\* seconds between startTime and endTime of a contract
ContractLength == 2

\* a contract of the /contracts response; season "" stands for a contract
\* without a season object
EggCoopContract(identifier, season, startTime) ==
    [contractIdentifier |-> identifier, season |-> season,
     startTime |-> startTime, endTime |-> startTime + ContractLength]

SeasonIds == {"winter_2025", "spring_2025", "fall_2024", ""}

ContractsOffered ==
    {EggCoopContract("contract", season, start) :
        season \in SeasonIds, start \in 1..MaxStart}
    \cup {EggCoopContract("first-contract", "", 0)}

\* contracts.sort((a, b) => dateA - dateB) is stable: e goes behind every
\* element that does not start later
RECURSIVE InsertByStart(_, _)
InsertByStart(sorted, e) ==
    IF sorted = <<>> THEN <<e>>
    ELSE IF Head(sorted).startTime - e.startTime > 0
         THEN <<e>> \o sorted
         ELSE <<Head(sorted)>> \o InsertByStart(Tail(sorted), e)

RECURSIVE SortByStartFrom(_, _, _)
SortByStartFrom(items, k, sorted) ==
    IF k > Len(items) THEN sorted
    ELSE SortByStartFrom(items, k + 1, InsertByStart(sorted, items[k]))

\* getEggCoopContractsList: sorted by startTime, without "first-contract"
getEggCoopContractsList(contracts) ==
    SelectSeq(SortByStartFrom(contracts, 1, <<>>),
              LAMBDA c : c.contractIdentifier # "first-contract")

NoBoundary == -1

\* the first loop: bounds = [start, end, threw]; it stops at the first
\* contract of the ending season. With guarded = FALSE a contract without
\* season throws out of the function, with guarded = TRUE the try/catch
\* around the body skips it
RECURSIVE SeasonBoundaries(_, _, _, _, _, _)
SeasonBoundaries(sorted, k, startSeasonId, endSeasonId, guarded, bounds) ==
    IF k > Len(sorted) THEN bounds
    ELSE IF sorted[k].season = ""
    THEN IF guarded
         THEN SeasonBoundaries(sorted, k + 1, startSeasonId, endSeasonId,
                               guarded, bounds)
         ELSE [bounds EXCEPT !.threw = TRUE]
    ELSE LET withStart ==
                 IF sorted[k].season = startSeasonId /\ bounds.start = NoBoundary
                 THEN [bounds EXCEPT !.start = sorted[k].startTime]
                 ELSE bounds
         IN  IF sorted[k].season = endSeasonId /\ withStart.end = NoBoundary
             THEN [withStart EXCEPT !.end = sorted[k].endTime]
             ELSE SeasonBoundaries(sorted, k + 1, startSeasonId, endSeasonId,
                                   guarded, withStart)

\* the condition of the second loop
WithinSeasons(c, bounds) ==
    /\ bounds.start # NoBoundary
    /\ c.startTime >= bounds.start
    /\ bounds.end = NoBoundary \/ c.startTime < bounds.end

SeasonOutcome(ok, val, err) ==
    [settled |-> IF ok THEN "resolved" ELSE "rejected",
     ok |-> ok, val |-> val, err |-> err]

\* getSeasonalContracts(startSeasonId, endSeasonId) of the eggcoop module
\* that index.js requires
getSeasonalContracts(contracts, startSeasonId, endSeasonId) ==
    LET sorted == getEggCoopContractsList(contracts)
        bounds == SeasonBoundaries(sorted, 1, startSeasonId, endSeasonId, FALSE,
                      [start |-> NoBoundary, end |-> NoBoundary, threw |-> FALSE])
    IN  IF bounds.threw
        THEN SeasonOutcome(FALSE, <<>>, "TypeError")
        ELSE SeasonOutcome(TRUE,
                 SelectSeq(sorted, LAMBDA c : WithinSeasons(c, bounds)), "")

\* getSeasonContracts(startSeasonId, endSeasonId, seasonalOnly) of the later
\* eggcoop module
getSeasonContracts(contracts, startSeasonId, endSeasonId, seasonalOnly) ==
    LET sorted == getEggCoopContractsList(contracts)
        bounds == SeasonBoundaries(sorted, 1, startSeasonId, endSeasonId, TRUE,
                      [start |-> NoBoundary, end |-> NoBoundary, threw |-> FALSE])
    IN  IF seasonalOnly
        THEN IF \E k \in 1..Len(sorted) : sorted[k].season = ""
             THEN SeasonOutcome(FALSE, <<>>, "TypeError")
             ELSE SeasonOutcome(TRUE,
                      SelectSeq(sorted, LAMBDA c : c.season = startSeasonId), "")
        ELSE SeasonOutcome(TRUE,
                 SelectSeq(sorted, LAMBDA c : WithinSeasons(c, bounds)), "")

InitSeason ==
    /\ pc = "start"
    /\ allContracts \in UNION {[1..n -> ContractsOffered] : n \in 0..MaxContracts}
    /\ seasonal = Unsettled
    /\ IdleDuration
    /\ IdleBuff
    /\ IdleCoop
    /\ IdleBatch
    /\ IdleRun
    /\ IdleMaj
    /\ IdleHistory

outsideSeason == <<snap, maxTime, mainGoal, dur, bh, bhIn, refTs, bv, snapIn,
                   contract, maj, out, ratios, factors, batch, contractIn,
                   runVars, majVars, historyVars>>

\* the outcome of a call together with the function called
SeasonCall(by, seasonalOnly, outcome) ==
    [by |-> by, seasonalOnly |-> seasonalOnly, settled |-> outcome.settled,
     ok |-> outcome.ok, val |-> outcome.val, err |-> outcome.err]

CallGetSeasonalContracts ==
    /\ pc = "start"
    /\ seasonal' = SeasonCall("getSeasonalContracts", FALSE,
                      getSeasonalContracts(allContracts, startingSeason,
                                           endingSeason))
    /\ pc' = "done"
    /\ UNCHANGED <<allContracts, outsideSeason>>

CallGetSeasonContracts ==
    /\ pc = "start"
    /\ \E seasonalOnly \in BOOLEAN :
          seasonal' = SeasonCall("getSeasonContracts", seasonalOnly,
                          getSeasonContracts(allContracts, startingSeason,
                                             endingSeason, seasonalOnly))
    /\ pc' = "done"
    /\ UNCHANGED <<allContracts, outsideSeason>>

NextSeason == CallGetSeasonalContracts \/ CallGetSeasonContracts

SpecSeason == InitSeason /\ [][NextSeason]_vars

--------------------------------------------------------------------------
(* Claims about the season filter, checked under SpecSeason *)

\* the start times of the contracts of a season, in the sorted list
SeasonStarts(sorted, seasonId) ==
    {sorted[k].startTime : k \in {j \in 1..Len(sorted) : sorted[j].season = seasonId}}

Earliest(times) == CHOOSE t \in times : \A u \in times : t <= u

\* start-inclusive, end-exclusive: from the first contract of the starting
\* season up to, not including, the first contract of the ending season
BetweenSeasons(c, sorted) ==
    /\ SeasonStarts(sorted, startingSeason) # {}
    /\ c.startTime >= Earliest(SeasonStarts(sorted, startingSeason))
    /\ \/ SeasonStarts(sorted, endingSeason) = {}
       \/ c.startTime < Earliest(SeasonStarts(sorted, endingSeason))

\* every contract of the response has a season object
AllSeasonal == \A k \in 1..Len(allContracts) : allContracts[k].season # ""

\* C24: the contracts returned by the season filter are exactly those that
\* start at or after the first contract of the starting season and before
\* the first occurrence of the ending season, so the first contract of the
\* ending season is never returned; when no contract of the ending season
\* exists, every contract from the starting season onward is returned.
C24_StartInclusiveEndExclusive ==
    (pc = "done" /\ seasonal.settled # "pending" /\ ~seasonal.seasonalOnly
        /\ AllSeasonal) =>
        LET sorted == getEggCoopContractsList(allContracts)
        IN  /\ seasonal.ok
            /\ seasonal.val = SelectSeq(sorted, LAMBDA c : BetweenSeasons(c, sorted))


--------------------------------------------------------------------------
(* Specification of filterUniqueContracts and getMajCoops (src/maj.js) *)

\* an entry of the MAJ endpoint's response. activeCoops is "true", "false",
\* "undefined" (missing) or "one" (the number 1: truthy, not true)
MajEntry(contractId, startTime, activeCoops) ==
    [isObject |-> TRUE, hasContract |-> TRUE, contract |-> contractId,
     hasStartTime |-> TRUE, startTime |-> startTime,
     activeCoops |-> activeCoops]

NullEntry == [MajEntry("", Undef, "undefined") EXCEPT !.isObject = FALSE]

NoContractEntry == [MajEntry("", Num(2), "false") EXCEPT !.hasContract = FALSE]

NoStartTimeEntry ==
    [MajEntry("k1", Undef, "false") EXCEPT !.hasStartTime = FALSE]

\* the longest response of the MAJ endpoint
MaxEntries == 3

MajEntries ==
    {MajEntry(c, Num(t), a) :
        c \in {"k1", "k2"}, t \in 1..2, a \in {"true", "false"}}
    \cup {MajEntry("k1", Rat(5, 2), "false"), MajEntry("k1", Str, "false"),
          MajEntry("k1", Num(1), "one"), MajEntry("k2", Num(1), "undefined"),
          NullEntry, NoContractEntry, NoStartTimeEntry}

MajResponses ==
    {List(items) : items \in UNION {[1..n -> MajEntries] : n \in 0..MaxEntries}}
    \cup {NotArray}

\* parseInt(value, 10) of a number of moderate size: the integer part, and
\* NaN for undefined and for a string without leading digits
ParseInt(v) ==
    IF v.t = "num"
    THEN Num(IF v.n >= 0 THEN v.n \div v.d ELSE -((-v.n) \div v.d))
    ELSE NaN

\* the position of the contract's entry among the values of uniqueContracts
\* (0: no entry yet)
PositionOf(entries, contractId) ==
    IF \E k \in 1..Len(entries) : entries[k].contract = contractId
    THEN CHOOSE k \in 1..Len(entries) : entries[k].contract = contractId
    ELSE 0

\* one iteration of the loop of filterUniqueContracts; entries are the
\* values of uniqueContracts in insertion order
UniqueStep(entries, coop) ==
    IF ~coop.isObject \/ ~coop.hasContract \/ ~coop.hasStartTime THEN entries
    ELSE LET currentStartTime == ParseInt(coop.startTime)
             at == PositionOf(entries, coop.contract)
         IN  IF currentStartTime.t = "nan" THEN entries
             ELSE IF at = 0 THEN Append(entries, coop)
             ELSE IF JLt(ParseInt(entries[at].startTime), currentStartTime)
                  THEN [entries EXCEPT ![at] = coop]
                  ELSE entries

RECURSIVE UniqueLoop(_, _, _)
UniqueLoop(items, k, entries) ==
    IF k > Len(items) THEN entries
    ELSE UniqueLoop(items, k + 1, UniqueStep(entries, items[k]))

MajOutcome(settled, val, err) ==
    [settled |-> settled, ok |-> err = "", val |-> val, err |-> err]

filterUniqueContracts(response) ==
    IF response.k # "array"
    THEN MajOutcome("threw", <<>>, "Input must be an array of cooperative objects")
    ELSE MajOutcome("returned", UniqueLoop(response.items, 1, <<>>), "")

\* an active filter that runs before the uniqueness filter
ActiveThenUnique(response) ==
    IF response.k # "array" THEN filterUniqueContracts(response)
    ELSE LET unique == filterUniqueContracts(List(SelectSeq(response.items,
                           LAMBDA coop : ~coop.isObject
                               \/ coop.activeCoops \in {"false", "undefined"})))
         IN  MajOutcome("returned", unique.val, "")

\* getMajCoops from the parsed response on (maj.js:90-100)
UniqueThenActive(response) ==
    LET unique == filterUniqueContracts(response)
    IN  IF ~unique.ok THEN unique
        ELSE MajOutcome("returned",
                 SelectSeq(unique.val,
                     LAMBDA coop : coop.activeCoops \in {"false", "undefined"}),
                 "")

\* what the request to the MAJ endpoint can come back with
FetchResults == {"ok", "http error", "network error"}

InitMaj ==
    /\ pc = "start"
    /\ majResponse \in MajResponses
    /\ uniqueCoops = Unsettled
    /\ majCoops = Unsettled
    /\ IdleDuration
    /\ IdleBuff
    /\ IdleCoop
    /\ IdleBatch
    /\ IdleRun
    /\ IdleSeason
    /\ IdleHistory

outsideMaj == <<snap, maxTime, mainGoal, dur, bh, bhIn, refTs, bv, snapIn,
                contract, maj, out, ratios, factors, batch, contractIn,
                runVars, seasonVars, historyVars>>

CallFilterUniqueContracts ==
    /\ pc = "start"
    /\ uniqueCoops' = filterUniqueContracts(majResponse)
    /\ pc' = "done"
    /\ UNCHANGED <<majResponse, majCoops, outsideMaj>>

\* getMajCoops up to the await of fetch; the environment variable
\* MAJ_ENDPOINT is defined or not
CallGetMajCoops ==
    /\ pc = "start"
    /\ \E defined \in BOOLEAN :
          IF defined
          THEN /\ pc' = "fetching"
               /\ UNCHANGED majCoops
          ELSE /\ pc' = "done"
               /\ majCoops' = MajOutcome("rejected", <<>>,
                      "Environment variable MAJ_ENDPOINT is not defined")
    /\ UNCHANGED <<majResponse, uniqueCoops, outsideMaj>>

\* the request settles and getMajCoops runs to its end
MajFetchSettles ==
    /\ pc = "fetching"
    /\ \E fetched \in FetchResults :
          IF fetched # "ok"
          THEN /\ majCoops' = MajOutcome("rejected", <<>>,
                      "Failed to fetch coop data: " \o fetched)
               /\ UNCHANGED uniqueCoops
          ELSE LET filtered == UniqueThenActive(majResponse)
               IN  /\ uniqueCoops' = filterUniqueContracts(majResponse)
                   /\ majCoops' =
                        IF filtered.ok
                        THEN MajOutcome("resolved", filtered.val, "")
                        ELSE MajOutcome("rejected", <<>>,
                                 "Failed to fetch coop data: " \o filtered.err)
    /\ pc' = "done"
    /\ UNCHANGED <<majResponse, outsideMaj>>

NextMaj == CallFilterUniqueContracts \/ CallGetMajCoops \/ MajFetchSettles

SpecMaj == InitMaj /\ [][NextMaj]_vars

--------------------------------------------------------------------------
(* Claims about src/maj.js, checked under SpecMaj *)

\* the entries of the response that filterUniqueContracts takes into account
Usable(coop) ==
    /\ coop.isObject /\ coop.hasContract /\ coop.hasStartTime
    /\ ParseInt(coop.startTime).t = "num"

MissingProperty(coop) ==
    ~coop.isObject \/ ~coop.hasContract \/ ~coop.hasStartTime

\* the indices of the entries of a contract with a numeric startTime
NumericOf(items, contractId) ==
    {k \in 1..Len(items) :
        /\ ~MissingProperty(items[k])
        /\ items[k].contract = contractId
        /\ items[k].startTime.t = "num"}

\* the first entry of the contract with the greatest startTime
LatestOf(items, contractId) ==
    LET numeric == NumericOf(items, contractId)
    IN  CHOOSE k \in numeric :
            \A j \in numeric :
                \/ JLt(items[j].startTime, items[k].startTime)
                \/ items[j].startTime = items[k].startTime /\ k <= j

ContractsIn(items) ==
    {items[k].contract : k \in {j \in 1..Len(items) : ~MissingProperty(items[j])}}

OnePerContract(entries) ==
    \A j, k \in 1..Len(entries) :
        entries[j].contract = entries[k].contract => j = k

\* C25: filterUniqueContracts returns at most one entry per distinct
\* contract, and for each contract that has at least one entry with a
\* numeric startTime the returned entry is an input entry whose startTime is
\* the maximum among that contract's entries (the first such entry on ties);
\* it throws an Error if the input is not an array or if required properties
\* (contract, startTime) are missing.
C25_LatestPerContractOrThrows ==
    (pc = "done" /\ uniqueCoops.settled # "pending") =>
        IF majResponse.k # "array"
           \/ \E k \in 1..Len(majResponse.items) :
                 MissingProperty(majResponse.items[k])
        THEN uniqueCoops.settled = "threw"
        ELSE /\ uniqueCoops.settled = "returned"
             /\ OnePerContract(uniqueCoops.val)
             /\ \A c \in ContractsIn(majResponse.items) :
                   NumericOf(majResponse.items, c) # {} =>
                      \E k \in 1..Len(uniqueCoops.val) :
                         uniqueCoops.val[k] =
                            majResponse.items[LatestOf(majResponse.items, c)]


--------------------------------------------------------------------------
(* Specification of getEggCoopCoop and addBuffHistory (src/unnamed/part_000) *)

\* a contributor of a coop status: eiUuid is "" when missing; buffHistory is
\* "unset", "empty" ([]) or "fetched" (the list of the response)
HistoryUser(eiUuid) ==
    [isObject |-> TRUE, eiUuid |-> eiUuid, buffHistory |-> "unset"]

NullUser == [HistoryUser("") EXCEPT !.isObject = FALSE]

\* a parsed coop status
CoopObject(hasArray, contributors) ==
    [isObject |-> TRUE, status |-> "ok", hasArray |-> hasArray,
     coopContributors |-> contributors]

NullCoop == [CoopObject(FALSE, <<>>) EXCEPT !.isObject = FALSE]

\* the object getEggCoopCoop returns from its catch
ErrorObject == [CoopObject(TRUE, <<>>) EXCEPT !.status = "error"]

\* the longest contributor array
MaxUsers == 3

HistoryUsers == {HistoryUser("u1"), HistoryUser(""), NullUser}

CoopObjects ==
    {CoopObject(TRUE, users) :
        users \in UNION {[1..n -> HistoryUsers] : n \in 0..MaxUsers}}
    \cup {CoopObject(FALSE, <<>>), NullCoop}

FetchOutcome(ok, val) ==
    [settled |-> IF ok THEN "resolved" ELSE "rejected", ok |-> ok,
     val |-> val, err |-> IF ok THEN "" ELSE "Failed to fetch URL"]

\* what fetchEggCoopAPI gives for the coop status
CoopResponses ==
    {FetchOutcome(TRUE, coop) : coop \in CoopObjects}
    \cup {FetchOutcome(FALSE, <<>>)}

\* what fetchEggCoopAPI gives for one contributor: it throws, the response
\* has no buffHistory, the response has one
UserResponses == {"fails", "no history", "history"}

EmptyHistory(coop, k) ==
    [coop EXCEPT !.coopContributors[k].buffHistory = "empty"]

\* the catch of addBuffHistory: every contributor gets an empty list; the
\* loop header throws without an array, the assignment for a null contributor
RECURSIVE OuterCatch(_, _)
OuterCatch(coop, k) ==
    IF ~coop.isObject \/ ~coop.hasArray
    THEN [pc |-> "done", coop |-> coop, index |-> k,
          promise |-> FetchOutcome(FALSE, <<>>)]
    ELSE IF k > Len(coop.coopContributors)
    THEN [pc |-> "done", coop |-> coop, index |-> k,
          promise |-> FetchOutcome(TRUE, coop)]
    ELSE IF ~coop.coopContributors[k].isObject
    THEN [pc |-> "done", coop |-> coop, index |-> k,
          promise |-> FetchOutcome(FALSE, <<>>)]
    ELSE OuterCatch(EmptyHistory(coop, k), k + 1)

\* the loop of addBuffHistory from contributor k up to its next await
RECURSIVE HistoryLoop(_, _)
HistoryLoop(coop, k) ==
    IF k > Len(coop.coopContributors)
    THEN [pc |-> "done", coop |-> coop, index |-> k,
          promise |-> FetchOutcome(TRUE, coop)]
    ELSE IF ~coop.coopContributors[k].isObject
    THEN OuterCatch(coop, 1)
    ELSE IF coop.coopContributors[k].eiUuid = ""
    THEN HistoryLoop(EmptyHistory(coop, k), k + 1)
    ELSE [pc |-> "fetchingUser", coop |-> coop, index |-> k,
          promise |-> Unsettled]

\* addBuffHistory up to its first await
addBuffHistory(coop) ==
    IF ~coop.isObject \/ ~coop.hasArray THEN OuterCatch(coop, 1)
    ELSE HistoryLoop(coop, 1)

\* addBuffHistory has come to an await or to its end; getEggCoopCoop, when
\* it is the caller, returns the coop or the object of its catch
HistoryMoves(run) ==
    /\ pc' = run.pc
    /\ coopObject' = run.coop
    /\ userIndex' = run.index
    /\ historyPromise' = run.promise
    /\ coopPromise' =
          IF coopPromise.settled # "running" \/ run.promise.settled = "pending"
          THEN coopPromise
          ELSE IF run.promise.ok THEN FetchOutcome(TRUE, run.coop)
          ELSE FetchOutcome(TRUE, ErrorObject)

InitHistory ==
    /\ pc = "start"
    /\ coopResponse \in CoopResponses
    /\ historyResponses = <<>>
    /\ coopObject = Unsettled
    /\ userIndex = 0
    /\ requested = <<>>
    /\ coopPromise = Unsettled
    /\ historyPromise = Unsettled
    /\ IdleDuration
    /\ IdleBuff
    /\ IdleCoop
    /\ IdleBatch
    /\ IdleRun
    /\ IdleSeason
    /\ IdleMaj

outsideHistory == <<snap, maxTime, mainGoal, dur, bh, bhIn, refTs, bv, snapIn,
                    contract, maj, out, ratios, factors, batch, contractIn,
                    runVars, seasonVars, majVars>>

\* addBuffHistory called with a coop status
CallAddBuffHistory ==
    /\ pc = "start"
    /\ coopResponse.ok
    /\ HistoryMoves(addBuffHistory(coopResponse.val))
    /\ UNCHANGED <<coopResponse, historyResponses, requested, outsideHistory>>

\* getEggCoopCoop up to the await of the coop status
CallGetEggCoopCoop ==
    /\ pc = "start"
    /\ pc' = "fetchingCoop"
    /\ coopPromise' = [Unsettled EXCEPT !.settled = "running"]
    /\ UNCHANGED <<coopResponse, historyResponses, coopObject, userIndex,
                   requested, historyPromise, outsideHistory>>

\* the coop status arrives or its fetch fails
CoopFetchSettles ==
    /\ pc = "fetchingCoop"
    /\ \E includeBuffHistory \in BOOLEAN :
          IF ~coopResponse.ok
          THEN /\ pc' = "done"
               /\ coopPromise' = FetchOutcome(TRUE, ErrorObject)
               /\ UNCHANGED <<coopObject, userIndex, historyPromise>>
          ELSE IF ~includeBuffHistory
          THEN /\ pc' = "done"
               /\ coopPromise' = FetchOutcome(TRUE, coopResponse.val)
               /\ coopObject' = coopResponse.val
               /\ UNCHANGED <<userIndex, historyPromise>>
          ELSE HistoryMoves(addBuffHistory(coopResponse.val))
    /\ UNCHANGED <<coopResponse, historyResponses, requested, outsideHistory>>

\* the fetch for contributor userIndex settles
UserFetchSettles ==
    /\ pc = "fetchingUser"
    /\ \E response \in UserResponses :
          /\ historyResponses' = Append(historyResponses, response)
          /\ IF response = "history"
             THEN LET fetched == [coopObject EXCEPT
                          !.coopContributors[userIndex].buffHistory = "fetched"]
                  IN  IF userIndex < Len(coopObject.coopContributors)
                      THEN /\ pc' = "delay"
                           /\ coopObject' = fetched
                           /\ UNCHANGED <<userIndex, historyPromise, coopPromise>>
                      ELSE HistoryMoves(HistoryLoop(fetched, userIndex + 1))
             ELSE HistoryMoves(HistoryLoop(EmptyHistory(coopObject, userIndex),
                                           userIndex + 1))
    /\ requested' = Append(requested, userIndex)
    /\ UNCHANGED <<coopResponse, outsideHistory>>

\* the delay between two requests is over
HistoryDelayOver ==
    /\ pc = "delay"
    /\ HistoryMoves(HistoryLoop(coopObject, userIndex + 1))
    /\ UNCHANGED <<coopResponse, historyResponses, requested, outsideHistory>>

NextHistory ==
    \/ CallAddBuffHistory
    \/ CallGetEggCoopCoop
    \/ CoopFetchSettles
    \/ UserFetchSettles
    \/ HistoryDelayOver

SpecHistory == InitHistory /\ [][NextHistory]_vars

--------------------------------------------------------------------------
(* Claims about getEggCoopCoop and addBuffHistory, checked under SpecHistory *)

\* the response of the fetch for contributor k ("none": no fetch yet)
ResponseFor(k) ==
    IF \E j \in 1..Len(requested) : requested[j] = k
    THEN historyResponses[CHOOSE j \in 1..Len(requested) : requested[j] = k]
    ELSE "none"

\* C30: addBuffHistory always resolves with the coop and, for a coop with a
\* contributor array, leaves every contributor with a buffHistory property
\* set: a contributor without eiUuid, with a failed fetch, or with a response
\* lacking buffHistory gets an empty list, and such a failure does not stop
\* the fetches for the contributors after it; getEggCoopCoop never throws and
\* on a fetch failure returns an error-status object with
\* coopContributors = [].
C30_HistoryAlwaysResolves ==
    /\ (pc = "done" /\ historyPromise # Unsettled) =>
          /\ historyPromise = FetchOutcome(TRUE, coopObject)
          /\ coopObject.isObject /\ coopObject.hasArray =>
                \A k \in 1..Len(coopObject.coopContributors) :
                   LET user == coopObject.coopContributors[k]
                   IN  /\ user.isObject
                       /\ user.buffHistory # "unset"
                       /\ user.eiUuid = "" => user.buffHistory = "empty"
                       /\ user.eiUuid # "" => ResponseFor(k) # "none"
                       /\ ResponseFor(k) \in {"fails", "no history"}
                             => user.buffHistory = "empty"
                       /\ ResponseFor(k) = "history"
                             => user.buffHistory = "fetched"
    /\ coopPromise.settled # "rejected"
    /\ (pc = "done" /\ coopPromise.settled = "resolved" /\ ~coopResponse.ok)
          => coopPromise.val = ErrorObject

==========================================================================
